---- MODULE Spec2Model ----
(***************************************************************************)
(* Golf-swing key-frame extraction (posts/golf_keyframe_extraction/end2end) *)
(* as a state machine: one run of detect_backswings followed by            *)
(* detect_contacts on one video.                                           *)
(*                                                                         *)
(* Frame indices are 0-based as in the source: a signal of n frames is a   *)
(* function on 0..n-1; a peak array is a sequence of frame indices.        *)
(* scipy's savgol_filter is a library smoother whose output is some signal *)
(* of the same length: the fine, coarse and contact-smoothed signals are   *)
(* drawn from all signals of that length.  scipy's find_peaks is modelled  *)
(* by what it guarantees of its result (see find_peaks).                   *)
(***************************************************************************)
EXTENDS Integers, Sequences, FiniteSets, TLC

VARIABLES
    pc,               \* the step of the pipeline that runs next
    cfg,              \* the Config of this run (frozen dataclass)
    n_pkl,            \* number of keypoint frames N = len(pkl_data) = len(combined)
    total_frames,     \* the video's frame count (read_video_meta)
    smoothed,         \* fine-smoothed signal (detect_peaks' second result)
    coarse,           \* coarse-smoothed signal (local to detect_peaks)
    anchors,          \* find_anchors' anchor array
    peaks_in,         \* the peak array the last operation was given
    peaks,            \* the peak array the last operation returned
    log,              \* run_all's log so far
    calls,            \* the operations invoked so far, in order
    pkl_data,         \* keypoint source: whether there is one (not None), and the
                      \* frames' keypoints that followthrough has read from it
    result,           \* DetectionResult (peak_frames, filter_log) once assembled
    contact_smoothed, \* detect_contact_points' smoothed signal
    contacts,         \* detect_contact_points' returned contact array
    cresult,          \* ContactResult (contact_frames, filter_log) once assembled
    signal,           \* interp_low_conf's signal argument (one coordinate channel)
    conf,             \* interp_low_conf's confidence argument
    interp_out,       \* interp_low_conf's result
    interp_out2,      \* the result of interp_low_conf applied to its own result
    wrists,           \* build_combined's arguments x_l, x_r, y_l, y_r, c_l, c_r
    combined,         \* build_combined's result
    cand,             \* backswing_score's peak argument (a candidate frame)
    score,            \* backswing_score's result
    candidates,       \* search_and_refine's candidate list for the current anchor
    best,             \* search_and_refine's chosen candidate for the current anchor
    slices,           \* the slices of a signal the last windowed search took: their
                      \* bounds as the code computes them, and whether it takes an
                      \* element, minimum or maximum of the slice
    video,            \* the arrays this run computes from its files, when they are
                      \* fixed before the run rather than met step by step
    other             \* the local state of a second, suspended run, if there is one

interp_vars == <<signal, conf, interp_out, interp_out2, wrists, combined>>
score_vars == <<cand, score>>
refine_vars == <<candidates, best>>

vars == <<pc, cfg, n_pkl, total_frames, smoothed, coarse, anchors, peaks_in, peaks,
          log, calls, pkl_data, result, contact_smoothed, contacts, cresult,
          interp_vars, score_vars, refine_vars, slices, video, other>>

---------------------------------------------------------------------------
(* Bounds of the model *)

MaxN == 5        \* number of keypoint frames
MaxVal == 1      \* signal values are 0..MaxVal
MaxPeaks == 3    \* longest peak array given to a filter or to the contact search

---------------------------------------------------------------------------
(* Arithmetic and sequence helpers *)

Min2(a, b) == IF a < b THEN a ELSE b
Max2(a, b) == IF a > b THEN a ELSE b
Abs(a) == IF a < 0 THEN -a ELSE a

Range(s) == {s[i] : i \in 1..Len(s)}

SetMin(S) == CHOOSE x \in S : \A y \in S : x <= y

RECURSIVE SortedSeq(_)
\* sorted(set(...)): the elements of S in ascending order
SortedSeq(S) == IF S = {} THEN <<>>
                ELSE LET m == SetMin(S) IN <<m>> \o SortedSeq(S \ {m})

RECURSIVE Insert(_, _), SortVals(_)
\* sorted(list): ascending, duplicates kept
Insert(v, s) == IF s = <<>> THEN <<v>>
                ELSE IF v <= Head(s) THEN <<v>> \o s
                ELSE <<Head(s)>> \o Insert(v, Tail(s))
SortVals(s) == IF s = <<>> THEN <<>> ELSE Insert(Head(s), SortVals(Tail(s)))

Last(s) == s[Len(s)]

StrictlyIncreasing(s) == \A i \in 1..(Len(s) - 1) : s[i] < s[i + 1]

NoDuplicates(s) == \A i, j \in 1..Len(s) : i # j => s[i] # s[j]

\* all strictly increasing sequences over S, as SortedSeq of each subset
IncreasingSeqs(S) == {SortedSeq(T) : T \in SUBSET S}

Signals(n) == [0..(n - 1) -> 0..MaxVal]

\* search_and_refine reads the coarse signal only through the signs of its
\* differences (d[i] <= 0 and d[i + 1] > 0); two levels give every candidate set
\* those signs can give (low at the candidates, high elsewhere)
CoarseSignals(n) == [0..(n - 1) -> {0, 1}]

\* every array of at most MaxPeaks frame indices: unsorted, with duplicates
PeakArrays(n) == UNION {[1..k -> 0..(n - 1)] : k \in 0..MaxPeaks}

NoSignal == <<>>
NoKeypoints == [loaded |-> TRUE, kp |-> <<>>]
NoVideo == [given |-> FALSE]
NoScore == <<>>
NoRun == <<>>

\* no interp_low_conf call is part of the run
InterpIdle ==
    /\ signal = NoSignal /\ conf = NoSignal /\ interp_out = NoSignal /\ interp_out2 = NoSignal
    /\ wrists = NoSignal /\ combined = NoSignal

\* no separate backswing_score call is part of the run
ScoreIdle == cand = -1 /\ score = NoScore

\* search_and_refine's loop is not followed step by step
RefineIdle == candidates = <<>> /\ best = -1

---------------------------------------------------------------------------
(* Config: the frozen dataclass, with frame counts scaled to MaxN frames *)

BaseConfig ==
    [ peak_prominence       |-> 1,
      peak_distance         |-> 2,
      look_behind           |-> 3,
      look_ahead            |-> 2,
      search_back           |-> 3,
      refine_window         |-> 1,
      min_swing_gap         |-> 2,
      end_of_video_pct      |-> <<1, 4>>,   \* the fraction 1/4
      xy_outlier_mad_thresh |-> 3,
      xy_outlier_min_peaks  |-> 3,
      xy_outlier_mad_floor  |-> 1,
      xoff_mad_thresh       |-> 3,
      xoff_mad_floor        |-> 1,
      contact_search_min    |-> 1,
      contact_search_max    |-> 3,
      conf_threshold        |-> 1 ]

Configs ==
    { [BaseConfig EXCEPT !.min_swing_gap = g, !.end_of_video_pct = p]
        : g \in {2, 3}, p \in {<<0, 4>>, <<1, 4>>} }

---------------------------------------------------------------------------
(* peaks.py *)

\* score = sqrt(V)/m - D/2, kept as the integers V, m, D:
\*   std(diff(behind)) = sqrt(m * sum(d^2) - sum(d)^2) / m  over the m differences
RECURSIVE SumDiff(_, _, _), SumDiffSq(_, _, _)
SumDiff(sig, lo, hi) ==
    IF lo >= hi THEN 0 ELSE (sig[lo + 1] - sig[lo]) + SumDiff(sig, lo + 1, hi)
SumDiffSq(sig, lo, hi) ==
    IF lo >= hi THEN 0
    ELSE (sig[lo + 1] - sig[lo]) * (sig[lo + 1] - sig[lo]) + SumDiffSq(sig, lo + 1, hi)

backswing_score(peak, sig, n, c) ==
    LET b0 == Max2(0, peak - c.look_behind)       \* behind = sig[b0 : peak]
        blen == peak - b0
        m == blen - 1                             \* number of differences
        V == IF blen > 2
             THEN m * SumDiffSq(sig, b0, peak - 1)
                  - SumDiff(sig, b0, peak - 1) * SumDiff(sig, b0, peak - 1)
             ELSE 0
        a1 == Min2(n, peak + c.look_ahead)        \* ahead = sig[peak : a1]
        alen == a1 - peak
        D == IF alen > 1 THEN sig[a1 - 1] - sig[peak] ELSE 0
    IN [V |-> V, m |-> IF blen > 2 THEN m ELSE 1, D |-> D]

\* sqrt(A) - sqrt(B) < K  over the reals, for naturals A, B and an integer K
SqrtDiffLess(A, B, K) ==
    LET T == A + B - K * K IN
    IF K > 0
    THEN IF A <= B THEN TRUE ELSE (T < 0 \/ T * T < 4 * A * B)
    ELSE IF B <= A THEN FALSE ELSE (T > 0 /\ T * T > 4 * A * B)

\* s < t for two scores
ScoreLess(s, t) ==
    SqrtDiffLess(4 * t.m * t.m * s.V, 4 * s.m * s.m * t.V, s.m * t.m * (s.D - t.D))

\* np.argmin / np.argmax over a non-empty list: the first position of the extreme
ArgMinScore(cands, sig, n, c) ==
    CHOOSE i \in 1..Len(cands) :
        /\ \A j \in 1..Len(cands) :
              ~ScoreLess(backswing_score(cands[j], sig, n, c),
                         backswing_score(cands[i], sig, n, c))
        /\ \A j \in 1..(i - 1) :
              ScoreLess(backswing_score(cands[i], sig, n, c),
                        backswing_score(cands[j], sig, n, c))

\* lo + np.argmin(sig[lo : hi + 1]), window non-empty
ArgMinIn(sig, lo, hi) ==
    CHOOSE i \in lo..hi : /\ \A j \in lo..hi : sig[i] <= sig[j]
                          /\ \A j \in lo..(i - 1) : sig[j] > sig[i]

\* lo + np.argmax(sig[lo : hi + 1]), window non-empty
ArgMaxIn(sig, lo, hi) ==
    CHOOSE i \in lo..hi : /\ \A j \in lo..hi : sig[i] >= sig[j]
                          /\ \A j \in lo..(i - 1) : sig[j] < sig[i]

\* neg = -smoothed without the end-of-video suppression
SuppressedNeg_not_suppressed(sig, n, tvf) == [i \in 0..(n - 1) |-> -sig[i]]

\* neg = -smoothed, with the last 5% of the video forced to the global minimum
SuppressedNeg(sig, n, tvf) ==
    LET neg == [i \in 0..(n - 1) |-> -sig[i]]
        ms == (tvf * 95) \div 100
        lowest == CHOOSE v \in {neg[i] : i \in 0..(n - 1)} :
                      \A i \in 0..(n - 1) : v <= neg[i]
    IN IF ms < n THEN [i \in 0..(n - 1) |-> IF i >= ms THEN lowest ELSE neg[i]]
       ELSE neg

\* scipy _local_maxima_1d: midpoints of the plateaus that rise on the left and
\* fall on the right; the first and last sample are never maxima
LocalMaxima(x, n) ==
    { m \in 1..(n - 2) :
        \E l \in 1..(n - 2), r \in 1..(n - 2) :
            /\ l <= r
            /\ \A i \in l..r : x[i] = x[l]
            /\ x[l - 1] < x[l]
            /\ x[r + 1] < x[r]
            /\ m = (l + r) \div 2 }

\* scipy peak_prominences (wlen = None): height above the higher of the two
\* lowest points reached before the signal exceeds the peak on either side
Prominence(x, n, p) ==
    LET L == CHOOSE l \in 0..p : /\ \A i \in l..p : x[i] <= x[p]
                                 /\ (l = 0 \/ x[l - 1] > x[p])
        R == CHOOSE r \in p..(n - 1) : /\ \A i \in p..r : x[i] <= x[p]
                                       /\ (r = n - 1 \/ x[r + 1] > x[p])
        lmin == SetMin({x[i] : i \in L..p})
        rmin == SetMin({x[i] : i \in p..R})
    IN x[p] - Max2(lmin, rmin)

\* find_peaks(neg, prominence, distance): every result is a strictly increasing
\* array of local maxima, each of at least the prominence, any two at least
\* `distance` apart.  Which of two close maxima survives depends on scipy's
\* priority order; every such array is taken as a possible result.
find_peaks(x, n, prominence, distance) ==
    { a \in IncreasingSeqs({p \in LocalMaxima(x, n) : Prominence(x, n, p) >= prominence}) :
        \A i \in 1..(Len(a) - 1) : a[i + 1] - a[i] >= distance }

RECURSIVE Candidates_strict_fall(_, _, _)
\* the backward search taking only strict falls (d[i] < 0) before a rise
Candidates_strict_fall(crs, k, anchor) ==
    IF k >= anchor THEN <<>>
    ELSE (IF crs[k] - crs[k - 1] < 0 /\ crs[k + 1] - crs[k] > 0 THEN <<k>> ELSE <<>>)
         \o Candidates_strict_fall(crs, k + 1, anchor)

RECURSIVE Candidates(_, _, _)
\* [ss + i + 1 for i in range(len(d) - 1) if d[i] <= 0 and d[i + 1] > 0],
\* d = diff(coarse[ss : anchor + 1]); k is the frame ss + i + 1
Candidates(crs, k, anchor) ==
    IF k >= anchor THEN <<>>
    ELSE (IF crs[k] - crs[k - 1] <= 0 /\ crs[k + 1] - crs[k] > 0 THEN <<k>> ELSE <<>>)
         \o Candidates(crs, k + 1, anchor)

\* the candidate list of one anchor, the anchor appended if not among them
CandidatesOf(anchor, crs, c) ==
    LET ss == Max2(0, anchor - c.search_back)
        found == Candidates(crs, ss + 1, anchor)
    IN IF anchor \in Range(found) THEN found ELSE Append(found, anchor)

\* candidates[np.argmin([backswing_score(c, smoothed, cfg) for c in candidates])]
BestOf(cs, sig, n, c) == cs[ArgMinScore(cs, sig, n, c)]

\* the refinement over a window one frame short: smoothed[best : best + refine_window]
RefinedFrom_short_window(b, sig, n, c) ==
    ArgMinIn(sig, b, Max2(b, Min2(n, b + c.refine_window) - 1))

\* best + argmin(smoothed[best : min(len(smoothed), best + refine_window + 1)])
RefinedFrom(b, sig, n, c) == ArgMinIn(sig, b, Min2(n, b + c.refine_window + 1) - 1)

\* one iteration of search_and_refine's loop
RefineAnchor(anchor, sig, crs, n, c) ==
    RefinedFrom(BestOf(CandidatesOf(anchor, crs, c), sig, n, c), sig, n, c)

\* len(a[lo:hi]) for an array of n samples: a negative bound counts from the
\* end, a bound past the end stops at the end
PySliceBound(i, n) == IF i < 0 THEN Max2(0, n + i) ELSE Min2(i, n)
PySliceLen(lo, hi, n) == Max2(0, PySliceBound(hi, n) - PySliceBound(lo, n))

\* a[lo:hi] as written in the code, and whether the code then takes an
\* element (a[0], a[-1]), np.argmin or np.argmax of it
Slice(name, lo, hi, needs) == [of |-> name, lo |-> lo, hi |-> hi, needs_sample |-> needs]

\* backswing_score with behind = smoothed[peak - look_behind : peak]
ScoreSlices_behind_unclamped(peak, n, c) ==
    LET a1 == Min2(n, peak + c.look_ahead)
    IN << Slice("behind", peak - c.look_behind, peak, FALSE),
          Slice("ahead", peak, a1, PySliceLen(peak, a1, n) > 1) >>

\* backswing_score: behind (only sliced and differenced) and ahead (ahead[-1]
\* and ahead[0] taken if len(ahead) > 1)
ScoreSlices(peak, n, c) ==
    LET a1 == Min2(n, peak + c.look_ahead)
    IN << Slice("behind", Max2(0, peak - c.look_behind), peak, FALSE),
          Slice("ahead", peak, a1, PySliceLen(peak, a1, n) > 1) >>

\* coarse[ss : anchor + 1]
CoarseSlice(anchor, c) == Slice("coarse", Max2(0, anchor - c.search_back), anchor + 1, FALSE)

\* refine = smoothed[best : min(len(smoothed), best + refine_window + 1)], np.argmin(refine)
RefineSlice(b, n, c) == Slice("refine", b, Min2(n, b + c.refine_window + 1), TRUE)

RECURSIVE CandidateSlices(_, _, _)
\* [backswing_score(c, smoothed, cfg) for c in candidates]
CandidateSlices(cs, n, c) ==
    IF cs = <<>> THEN <<>> ELSE ScoreSlices(Head(cs), n, c) \o CandidateSlices(Tail(cs), n, c)

RECURSIVE SearchSlices(_, _, _, _, _)
\* every slice of search_and_refine's loop, anchor after anchor
SearchSlices(anch, sig, crs, n, c) ==
    IF anch = <<>> THEN <<>>
    ELSE LET cs == CandidatesOf(Head(anch), crs, c)
         IN <<CoarseSlice(Head(anch), c)>> \o CandidateSlices(cs, n, c)
            \o <<RefineSlice(BestOf(cs, sig, n, c), n, c)>>
            \o SearchSlices(Tail(anch), sig, crs, n, c)

search_and_refine(anch, sig, crs, n, c) ==
    [i \in 1..Len(anch) |-> RefineAnchor(anch[i], sig, crs, n, c)]

\* detect_peaks without its short-circuit on an empty anchor set
AfterFindAnchors_no_return(a) == "search_and_refine"

\* detect_peaks: if len(anchors) == 0: return anchors, smoothed
AfterFindAnchors(a) == IF Len(a) = 0 THEN "run_all" ELSE "search_and_refine"

---------------------------------------------------------------------------
(* filters.py: each filter returns (peaks, log); a log entry keeps the filter's
   name and the count its message reports *)

Entry(name, k) == [filter |-> name, removed |-> k]

\* dedup that sorts without set(): duplicates survive
dedup_keeps_duplicates(p) ==
    IF Len(p) = 0 THEN [peaks |-> p, log |-> <<>>]
    ELSE [peaks |-> SortVals(p), log |-> <<>>]

RECURSIVE FirstOccurrences(_, _)
FirstOccurrences(p, seen) ==
    IF p = <<>> THEN <<>>
    ELSE IF Head(p) \in seen THEN FirstOccurrences(Tail(p), seen)
    ELSE <<Head(p)>> \o FirstOccurrences(Tail(p), seen \cup {Head(p)})

\* dedup that drops duplicates without sorted()
dedup_unsorted(p) ==
    IF Len(p) = 0 THEN [peaks |-> p, log |-> <<>>]
    ELSE LET out == FirstOccurrences(p, {})
         IN [peaks |-> out,
             log |-> IF Len(out) # Len(p)
                     THEN <<Entry("Dedup", Len(p) - Len(out))>> ELSE <<>>]

dedup(p) ==
    IF Len(p) = 0 THEN [peaks |-> p, log |-> <<>>]
    ELSE LET out == SortedSeq(Range(p))
         IN [peaks |-> out,
             log |-> IF Len(out) # Len(p)
                     THEN <<Entry("Dedup", Len(p) - Len(out))>> ELSE <<>>]

\* round() in place of int()
Cutoff_rounded(total, pct) == (2 * total * (pct[2] - pct[1]) + pct[2]) \div (2 * pct[2])

\* int(total_frames * (1.0 - end_of_video_pct)) for the fraction pct = <<num, den>>;
\* int() truncates, and the product is never negative here
Cutoff(total, pct) == (total * (pct[2] - pct[1])) \div pct[2]

\* mask = peaks <= cutoff
trim_end_inclusive(p, total, pct) ==
    LET cutoff == Cutoff(total, pct)
        mask(x) == x <= cutoff
        kept == SelectSeq(p, mask)
    IN IF \A i \in 1..Len(p) : mask(p[i])
       THEN [peaks |-> p, log |-> <<>>]
       ELSE [peaks |-> kept, log |-> <<Entry("End-of-video", Len(p) - Len(kept))>>]

trim_end(p, total, pct) ==
    LET cutoff == Cutoff(total, pct)
        mask(x) == x < cutoff
        kept == SelectSeq(p, mask)
    IN IF \A i \in 1..Len(p) : mask(p[i])
       THEN [peaks |-> p, log |-> <<>>]
       ELSE [peaks |-> kept, log |-> <<Entry("End-of-video", Len(p) - Len(kept))>>]

RECURSIVE MergeLoop(_, _, _, _, _, _)
\* merge_close's loop from position i: merged so far, and len(removed_close)
MergeLoop(p, i, sig, gap, merged, nremoved) ==
    IF i > Len(p) THEN [merged |-> merged, nremoved |-> nremoved]
    ELSE LET last == merged[Len(merged)] IN
         IF p[i] - last < gap
         THEN IF sig[p[i]] < sig[last]
              THEN MergeLoop(p, i + 1, sig, gap,
                             [merged EXCEPT ![Len(merged)] = p[i]], nremoved + 1)
              ELSE MergeLoop(p, i + 1, sig, gap, merged, nremoved + 1)
         ELSE MergeLoop(p, i + 1, sig, gap, Append(merged, p[i]), nremoved)

RECURSIVE MergeLoop_appends(_, _, _, _, _, _), MergeLoop_keeps_higher(_, _, _, _, _, _)
\* merged.append(p) where the code has merged[-1] = p
MergeLoop_appends(p, i, sig, gap, merged, nremoved) ==
    IF i > Len(p) THEN [merged |-> merged, nremoved |-> nremoved]
    ELSE LET last == merged[Len(merged)] IN
         IF p[i] - last < gap
         THEN IF sig[p[i]] < sig[last]
              THEN MergeLoop_appends(p, i + 1, sig, gap, Append(merged, p[i]), nremoved + 1)
              ELSE MergeLoop_appends(p, i + 1, sig, gap, merged, nremoved + 1)
         ELSE MergeLoop_appends(p, i + 1, sig, gap, Append(merged, p[i]), nremoved)

merge_close_appends(p, sig, gap) ==
    LET r == MergeLoop_appends(p, 2, sig, gap, <<p[1]>>, 0)
    IN [peaks |-> r.merged,
        log |-> IF r.nremoved > 0 THEN <<Entry("Too-close", r.nremoved)>> ELSE <<>>]

\* smoothed[p] > smoothed[prev] where the code has <
MergeLoop_keeps_higher(p, i, sig, gap, merged, nremoved) ==
    IF i > Len(p) THEN [merged |-> merged, nremoved |-> nremoved]
    ELSE LET last == merged[Len(merged)] IN
         IF p[i] - last < gap
         THEN IF sig[p[i]] > sig[last]
              THEN MergeLoop_keeps_higher(p, i + 1, sig, gap,
                                          [merged EXCEPT ![Len(merged)] = p[i]], nremoved + 1)
              ELSE MergeLoop_keeps_higher(p, i + 1, sig, gap, merged, nremoved + 1)
         ELSE MergeLoop_keeps_higher(p, i + 1, sig, gap, Append(merged, p[i]), nremoved)

merge_close_keeps_higher(p, sig, gap) ==
    LET r == MergeLoop_keeps_higher(p, 2, sig, gap, <<p[1]>>, 0)
    IN [peaks |-> r.merged,
        log |-> IF r.nremoved > 0 THEN <<Entry("Too-close", r.nremoved)>> ELSE <<>>]

\* merge_close reporting len(merged) where the code reports len(removed_close)
merge_close_reports_merged(p, sig, gap) ==
    LET r == MergeLoop(p, 2, sig, gap, <<p[1]>>, 0)
    IN [peaks |-> r.merged,
        log |-> IF r.nremoved > 0 THEN <<Entry("Too-close", Len(r.merged))>> ELSE <<>>]

\* peaks is never empty here: merged starts as [peaks[0]]
merge_close(p, sig, gap) ==
    LET r == MergeLoop(p, 2, sig, gap, <<p[1]>>, 0)
    IN [peaks |-> r.merged,
        log |-> IF r.nremoved > 0 THEN <<Entry("Too-close", r.nremoved)>> ELSE <<>>]

\* twice np.median of a non-empty list (the mean of the two middle values when even)
Median2(s) ==
    LET t == SortVals(s)
        k == Len(s)
    IN IF k % 2 = 1 THEN 2 * t[(k + 1) \div 2] ELSE t[k \div 2] + t[k \div 2 + 1]

\* For values u[i] / scale:  4 * scale * max(median |v - med|, floor)
Mad4(u, scale, floor) ==
    LET m2 == Median2(u)
        devs == [i \in 1..Len(u) |-> Abs(2 * u[i] - m2)]
    IN Max2(Median2(devs), 4 * scale * floor)

\* For values u[i] / scale:  v > med + thresh * mad, everything times 4 * scale
AboveThresh(ui, u, scale, thresh, floor) ==
    4 * ui > 2 * Median2(u) + thresh * Mad4(u, scale, floor)

\* mad_outlier with  om = vals >= thresh
mad_outlier_at_or_above(p, sig, mad_thresh, mad_floor, min_peaks) ==
    IF Len(p) < min_peaks THEN [peaks |-> p, log |-> <<>>]
    ELSE LET vals == [i \in 1..Len(p) |-> sig[p[i]]]
             om(x) == 4 * sig[x] >= 2 * Median2(vals) + mad_thresh * Mad4(vals, 1, mad_floor)
             kept == SelectSeq(p, LAMBDA x : ~om(x))
         IN IF Mad4(vals, 1, mad_floor) > 0 /\ \E i \in 1..Len(p) : om(p[i])
            THEN [peaks |-> kept, log |-> <<Entry("MAD", Len(p) - Len(kept))>>]
            ELSE [peaks |-> p, log |-> <<>>]

\* mad_outlier without its  if mad > 0  guard
mad_outlier_unguarded(p, sig, mad_thresh, mad_floor, min_peaks) ==
    IF Len(p) < min_peaks THEN [peaks |-> p, log |-> <<>>]
    ELSE LET vals == [i \in 1..Len(p) |-> sig[p[i]]]
             om(x) == AboveThresh(sig[x], vals, 1, mad_thresh, mad_floor)
             kept == SelectSeq(p, LAMBDA x : ~om(x))
         IN IF \E i \in 1..Len(p) : om(p[i])
            THEN [peaks |-> kept, log |-> <<Entry("MAD", Len(p) - Len(kept))>>]
            ELSE [peaks |-> p, log |-> <<>>]

mad_outlier(p, sig, mad_thresh, mad_floor, min_peaks) ==
    IF Len(p) < min_peaks THEN [peaks |-> p, log |-> <<>>]
    ELSE LET vals == [i \in 1..Len(p) |-> sig[p[i]]]
             om(x) == AboveThresh(sig[x], vals, 1, mad_thresh, mad_floor)
             kept == SelectSeq(p, LAMBDA x : ~om(x))
         IN IF Mad4(vals, 1, mad_floor) > 0 /\ \E i \in 1..Len(p) : om(p[i])
            THEN [peaks |-> kept, log |-> <<Entry("MAD", Len(p) - Len(kept))>>]
            ELSE [peaks |-> p, log |-> <<>>]

\* x coordinates of the four joints followthrough reads from a frame's keypoints
Poses == { [left_wrist |-> 0, right_wrist |-> 0, left_shoulder |-> 1, right_shoulder |-> 1],
           [left_wrist |-> 1, right_wrist |-> 2, left_shoulder |-> 1, right_shoulder |-> 1],
           [left_wrist |-> 3, right_wrist |-> 3, left_shoulder |-> 1, right_shoulder |-> 1] }

\* twice the wrist-midpoint minus shoulder-midpoint x offset
Offset2(kp) == (kp.left_wrist + kp.right_wrist) - (kp.left_shoulder + kp.right_shoulder)

\* followthrough with mad_outlier's  if mad > 0  guard
followthrough_guarded(p, pkl, c) ==
    IF ~pkl.loaded \/ Len(p) < c.xy_outlier_min_peaks THEN [peaks |-> p, log |-> <<>>]
    ELSE LET offsets == [i \in 1..Len(p) |-> Offset2(pkl.kp[p[i]])]
             om(x) == AboveThresh(Offset2(pkl.kp[x]), offsets, 2, c.xoff_mad_thresh,
                                  c.xoff_mad_floor)
             kept == SelectSeq(p, LAMBDA x : ~om(x))
         IN IF Mad4(offsets, 2, c.xoff_mad_floor) > 0 /\ \E i \in 1..Len(p) : om(p[i])
            THEN [peaks |-> kept, log |-> <<Entry("Follow-through", Len(p) - Len(kept))>>]
            ELSE [peaks |-> p, log |-> <<>>]

\* pkl.loaded is false for pkl_data = None; pkl.kp[p] is pkl_data["frame_p"]
followthrough(p, pkl, c) ==
    IF ~pkl.loaded \/ Len(p) < c.xy_outlier_min_peaks THEN [peaks |-> p, log |-> <<>>]
    ELSE LET offsets == [i \in 1..Len(p) |-> Offset2(pkl.kp[p[i]])]
             om(x) == AboveThresh(Offset2(pkl.kp[x]), offsets, 2, c.xoff_mad_thresh,
                                  c.xoff_mad_floor)
             kept == SelectSeq(p, LAMBDA x : ~om(x))
         IN IF \E i \in 1..Len(p) : om(p[i])
            THEN [peaks |-> kept, log |-> <<Entry("Follow-through", Len(p) - Len(kept))>>]
            ELSE [peaks |-> p, log |-> <<>>]

\* run_all without its first early return
AfterDedup_no_return(p) == "trim_end"

\* run_all's two early returns: where the chain goes after dedup and after trim_end
AfterDedup(p) == IF Len(p) = 0 THEN "return" ELSE "trim_end"
AfterTrimEnd(p) == IF Len(p) = 0 THEN "return" ELSE "merge_close"

---------------------------------------------------------------------------
(* contact.py *)

RECURSIVE ContactLoop(_, _, _, _, _)
ContactLoop(bs, i, sm, n, c) ==
    IF i > Len(bs) THEN <<>>
    ELSE LET s == bs[i] + c.contact_search_min
             e == Min2(bs[i] + c.contact_search_max, n - 1)
         IN (IF s >= n THEN <<>>
             ELSE IF e - s + 1 > 0 THEN <<ArgMaxIn(sm, s, e)>> ELSE <<>>)
            \o ContactLoop(bs, i + 1, sm, n, c)

RECURSIVE ContactLoop_open_window(_, _, _, _, _), ContactLoop_skips_last(_, _, _, _, _)
RECURSIVE ContactLoop_one_past(_, _, _, _, _)
\* contacts.append(s + np.argmax(seg) + 1)
ContactLoop_one_past(bs, i, sm, n, c) ==
    IF i > Len(bs) THEN <<>>
    ELSE LET s == bs[i] + c.contact_search_min
             e == Min2(bs[i] + c.contact_search_max, n - 1)
         IN (IF s >= n THEN <<>>
             ELSE IF e - s + 1 > 0 THEN <<ArgMaxIn(sm, s, e) + 1>> ELSE <<>>)
            \o ContactLoop_one_past(bs, i + 1, sm, n, c)

detect_contact_points_one_past(bs_frames, sm, n, c) ==
    ContactLoop_one_past(bs_frames, 1, sm, n, c)

\* seg = smoothed[s:e] where the code has smoothed[s:e + 1]
ContactLoop_open_window(bs, i, sm, n, c) ==
    IF i > Len(bs) THEN <<>>
    ELSE LET s == bs[i] + c.contact_search_min
             e == Min2(bs[i] + c.contact_search_max, n - 1)
         IN (IF s >= n THEN <<>>
             ELSE IF e - s > 0 THEN <<ArgMaxIn(sm, s, e - 1)>> ELSE <<>>)
            \o ContactLoop_open_window(bs, i + 1, sm, n, c)

detect_contact_points_open_window(bs_frames, sm, n, c) ==
    ContactLoop_open_window(bs_frames, 1, sm, n, c)

\* if s >= n_pkl - 1: continue
ContactLoop_skips_last(bs, i, sm, n, c) ==
    IF i > Len(bs) THEN <<>>
    ELSE LET s == bs[i] + c.contact_search_min
             e == Min2(bs[i] + c.contact_search_max, n - 1)
         IN (IF s >= n - 1 THEN <<>>
             ELSE IF e - s + 1 > 0 THEN <<ArgMaxIn(sm, s, e)>> ELSE <<>>)
            \o ContactLoop_skips_last(bs, i + 1, sm, n, c)

detect_contact_points_skips_last(bs_frames, sm, n, c) ==
    ContactLoop_skips_last(bs_frames, 1, sm, n, c)

RECURSIVE ContactLoop_also_end(_, _, _, _, _)
\* contacts.append(s + np.argmax(seg)) followed by contacts.append(e)
ContactLoop_also_end(bs, i, sm, n, c) ==
    IF i > Len(bs) THEN <<>>
    ELSE LET s == bs[i] + c.contact_search_min
             e == Min2(bs[i] + c.contact_search_max, n - 1)
         IN (IF s >= n THEN <<>>
             ELSE IF e - s + 1 > 0 THEN <<ArgMaxIn(sm, s, e), e>> ELSE <<>>)
            \o ContactLoop_also_end(bs, i + 1, sm, n, c)

detect_contact_points_also_end(bs_frames, sm, n, c) ==
    ContactLoop_also_end(bs_frames, 1, sm, n, c)

detect_contact_points(bs_frames, sm, n, c) == ContactLoop(bs_frames, 1, sm, n, c)

RECURSIVE ContactSlices(_, _, _)
\* seg = smoothed[s : e + 1] of every backswing not skipped, np.argmax(seg) taken
\* if len(seg) > 0
ContactSlices(bs, n, c) ==
    IF bs = <<>> THEN <<>>
    ELSE LET s == Head(bs) + c.contact_search_min
             e == Min2(Head(bs) + c.contact_search_max, n - 1)
         IN (IF s >= n THEN <<>>
             ELSE <<Slice("contact", s, e + 1, PySliceLen(s, e + 1, n) > 0)>>)
            \o ContactSlices(Tail(bs), n, c)

---------------------------------------------------------------------------
(* signal.py.  Coordinates are integers in units of 1 / InterpScale(n) pixel, so
   that every value np.interp computes between two whole-pixel samples at most
   n - 1 frames apart is an integer too *)

RECURSIVE Gcd(_, _), LcmUpTo(_)
Gcd(a, b) == IF b = 0 THEN a ELSE Gcd(b, a % b)
Lcm(a, b) == (a * b) \div Gcd(a, b)
LcmUpTo(k) == IF k <= 1 THEN 1 ELSE Lcm(k, LcmUpTo(k - 1))
InterpScale(n) == LcmUpTo(n - 1)

\* confidence scores, compared with conf_threshold
ConfLevels == 0..2

\* np.interp(x, xp, fp) with xp the good frames G (at least one) and fp the
\* signal there: the end value outside [min G, max G], the value itself at a good
\* frame, and the chord between the two nearest good frames otherwise
Interp_extrapolating(x, G, fp) ==
    LET lo == CHOOSE g \in G : \A h \in G : g <= h
        hi == CHOOSE g \in G : \A h \in G : g >= h
        a == IF x <= lo THEN lo
             ELSE IF x >= hi THEN CHOOSE g \in G : g < hi /\ \A h \in G : h < hi => h <= g
             ELSE CHOOSE g \in G : g <= x /\ \A h \in G : h <= x => h <= g
        b == CHOOSE g \in G : g > a /\ \A h \in G : h > a => g <= h
    IN fp[a] + ((fp[b] - fp[a]) * (x - a)) \div (b - a)

Interp(x, G, fp) ==
    LET lo == CHOOSE g \in G : \A h \in G : g <= h
        hi == CHOOSE g \in G : \A h \in G : g >= h
    IN IF x <= lo THEN fp[lo]
       ELSE IF x >= hi THEN fp[hi]
       ELSE LET a == CHOOSE g \in G : g <= x /\ \A h \in G : h <= x => h <= g
                b == CHOOSE g \in G : g > x /\ \A h \in G : h > x => g <= h
            IN fp[a] + ((fp[b] - fp[a]) * (x - a)) \div (b - a)

\* if np.sum(good) < 1 where the code has < 2
interp_low_conf_one_good(sig, cf, threshold) ==
    LET bad == {i \in DOMAIN sig : cf[i] < threshold}
        good == DOMAIN sig \ bad
    IN IF bad = {} THEN sig
       ELSE IF Cardinality(good) < 1 THEN sig
       ELSE [i \in DOMAIN sig |-> IF i \in bad THEN Interp(i, good, sig) ELSE sig[i]]

\* a bad frame takes the value of the frame before it, whatever its confidence
interp_low_conf_previous_frame(sig, cf, threshold) ==
    LET bad == {i \in DOMAIN sig : cf[i] < threshold}
        good == DOMAIN sig \ bad
    IN IF bad = {} THEN sig
       ELSE IF Cardinality(good) < 2 THEN sig
       ELSE [i \in DOMAIN sig |-> IF i \in bad /\ i > 0 THEN sig[i - 1] ELSE sig[i]]

interp_low_conf(sig, cf, threshold) ==
    LET bad == {i \in DOMAIN sig : cf[i] < threshold}
        good == DOMAIN sig \ bad
    IN IF bad = {} THEN sig
       ELSE IF Cardinality(good) < 2 THEN sig
       ELSE [i \in DOMAIN sig |-> IF i \in bad THEN Interp(i, good, sig) ELSE sig[i]]

\* (x_l + x_r) / 2.0 + (y_l + y_r) / 2.0 after interpolation, in half units:
\* the value here is twice the combined signal
build_combined(x_l, x_r, y_l, y_r, c_l, c_r, conf_threshold) ==
    LET xl == interp_low_conf(x_l, c_l, conf_threshold)
        xr == interp_low_conf(x_r, c_r, conf_threshold)
        yl == interp_low_conf(y_l, c_l, conf_threshold)
        yr == interp_low_conf(y_r, c_r, conf_threshold)
    IN [i \in DOMAIN x_l |-> (xl[i] + xr[i]) + (yl[i] + yr[i])]

---------------------------------------------------------------------------
(* pipeline.py as functions of a video's arrays.  A video v holds what the
   library calls return on its files: the fine, coarse and contact-smoothed
   signals (savgol_filter), the anchor array (find_peaks) and the keypoints *)

run_all(p, sig, total, pkl, c) ==
    LET r1 == dedup(p) IN
    IF Len(r1.peaks) = 0 THEN [peaks |-> r1.peaks, log |-> r1.log]
    ELSE LET r2 == trim_end(r1.peaks, total, c.end_of_video_pct) IN
    IF Len(r2.peaks) = 0 THEN [peaks |-> r2.peaks, log |-> r1.log \o r2.log]
    ELSE LET r3 == merge_close(r2.peaks, sig, c.min_swing_gap)
             r4 == mad_outlier(r3.peaks, sig, c.xy_outlier_mad_thresh,
                               c.xy_outlier_mad_floor, c.xy_outlier_min_peaks)
             r5 == followthrough(r4.peaks, pkl, c)
         IN [peaks |-> r5.peaks,
             log |-> r1.log \o r2.log \o r3.log \o r4.log \o r5.log]

detect_peaks(v, n, c) ==
    IF Len(v.anchors) = 0 THEN v.anchors
    ELSE search_and_refine(v.anchors, v.smoothed, v.coarse, n, c)

detect_backswings(v, n, total, c) ==
    LET r == run_all(detect_peaks(v, n, c), v.smoothed, total,
                     [loaded |-> TRUE, kp |-> v.keypoints], c)
    IN [peak_frames |-> r.peaks, filter_log |-> r.log]

detect_contacts(br, v, n, c) ==
    LET r == dedup(detect_contact_points(br.peak_frames, v.contact_smoothed, n, c))
    IN [contact_frames |-> r.peaks, filter_log |-> r.log]

\* what the library calls of the current run return: anything of the right
\* shape, or the video's arrays when the video is fixed
SavgolFine == IF video.given THEN {video.smoothed} ELSE Signals(n_pkl)
SavgolCoarse == IF video.given THEN {video.coarse} ELSE CoarseSignals(n_pkl)
SavgolContact == IF video.given THEN {video.contact_smoothed} ELSE Signals(n_pkl)
FoundPeaks(neg) ==
    LET all == find_peaks(neg, n_pkl, cfg.peak_prominence, cfg.peak_distance)
    IN IF video.given THEN all \cap {video.anchors} ELSE all
Keypoints(frames) ==
    IF video.given THEN {[f \in frames |-> video.keypoints[f]]} ELSE [frames -> Poses]

---------------------------------------------------------------------------
(* The run *)

Init ==
    /\ pc = "find_anchors"
    /\ cfg \in Configs
    /\ n_pkl = MaxN
    /\ total_frames \in (MaxN - 1)..(MaxN + 1)
    /\ smoothed = NoSignal
    /\ coarse = NoSignal
    /\ anchors = <<>>
    /\ peaks_in = <<>>
    /\ peaks = <<>>
    /\ log = <<>>
    /\ calls = <<>>
    /\ pkl_data = NoKeypoints
    /\ result = <<>>
    /\ contact_smoothed = NoSignal
    /\ contacts = <<>>
    /\ cresult = <<>>
    /\ InterpIdle
    /\ ScoreIdle
    /\ RefineIdle
    /\ slices = <<>>
    /\ video = NoVideo
    /\ other = NoRun

\* find_anchors with neg a view of smoothed (smoothed *= -1 in place of
\* neg = -smoothed): the suppression lands in the array that is returned
FindAnchors_in_place ==
    /\ pc = "find_anchors"
    /\ \E sig \in SavgolFine, crs \in SavgolCoarse :
         \E a \in FoundPeaks(SuppressedNeg(sig, n_pkl, total_frames)) :
            /\ smoothed' = SuppressedNeg(sig, n_pkl, total_frames)
            /\ coarse' = IF Len(a) = 0 THEN NoSignal ELSE crs
            /\ anchors' = a
            /\ peaks' = IF Len(a) = 0 THEN a ELSE peaks
            /\ pc' = AfterFindAnchors(a)
    /\ calls' = Append(calls, "find_anchors")
    /\ UNCHANGED <<cfg, n_pkl, total_frames, peaks_in, log, pkl_data, result,
                   contact_smoothed, contacts, cresult>>
    /\ UNCHANGED <<interp_vars, score_vars, refine_vars, slices, video, other>>

\* detect_peaks: find_anchors, and the short-circuit on an empty anchor set
FindAnchors ==
    /\ pc = "find_anchors"
    /\ \E sig \in SavgolFine, crs \in SavgolCoarse :
         \E a \in FoundPeaks(SuppressedNeg(sig, n_pkl, total_frames)) :
            /\ smoothed' = sig
            /\ coarse' = IF Len(a) = 0 THEN NoSignal ELSE crs
            /\ anchors' = a
            /\ peaks' = IF Len(a) = 0 THEN a ELSE peaks
            /\ pc' = AfterFindAnchors(a)
    /\ calls' = Append(calls, "find_anchors")
    /\ UNCHANGED <<cfg, n_pkl, total_frames, peaks_in, log, pkl_data, result,
                   contact_smoothed, contacts, cresult>>
    /\ UNCHANGED <<interp_vars, score_vars, refine_vars, slices, video, other>>

\* detect_peaks: search_and_refine on a non-empty anchor set
SearchAndRefine ==
    /\ pc = "search_and_refine"
    /\ peaks' = search_and_refine(anchors, smoothed, coarse, n_pkl, cfg)
    /\ peaks_in' = anchors
    /\ coarse' = NoSignal
    /\ calls' = Append(calls, "search_and_refine")
    /\ pc' = "run_all"
    /\ slices' = SearchSlices(anchors, smoothed, coarse, n_pkl, cfg)
    /\ UNCHANGED <<cfg, n_pkl, total_frames, smoothed, anchors, log, pkl_data, result,
                   contact_smoothed, contacts, cresult>>
    /\ UNCHANGED <<interp_vars, score_vars, refine_vars, video, other>>

\* run_all, step 1
Dedup ==
    /\ pc = "run_all"
    /\ LET r == dedup(peaks) IN
         /\ peaks' = r.peaks
         /\ log' = log \o r.log
         /\ pc' = AfterDedup(r.peaks)
    /\ peaks_in' = peaks
    /\ calls' = Append(calls, "dedup")
    /\ UNCHANGED <<cfg, n_pkl, total_frames, smoothed, coarse, anchors, pkl_data, result,
                   contact_smoothed, contacts, cresult>>
    /\ UNCHANGED <<interp_vars, score_vars, refine_vars, slices, video, other>>

\* run_all, step 2
TrimEnd ==
    /\ pc = "trim_end"
    /\ LET r == trim_end(peaks, total_frames, cfg.end_of_video_pct) IN
         /\ peaks' = r.peaks
         /\ log' = log \o r.log
         /\ pc' = AfterTrimEnd(r.peaks)
    /\ peaks_in' = peaks
    /\ calls' = Append(calls, "trim_end")
    /\ UNCHANGED <<cfg, n_pkl, total_frames, smoothed, coarse, anchors, pkl_data, result,
                   contact_smoothed, contacts, cresult>>
    /\ UNCHANGED <<interp_vars, score_vars, refine_vars, slices, video, other>>

\* run_all, step 3
MergeClose ==
    /\ pc = "merge_close"
    /\ LET r == merge_close(peaks, smoothed, cfg.min_swing_gap) IN
         /\ peaks' = r.peaks
         /\ log' = log \o r.log
    /\ pc' = "mad_outlier"
    /\ peaks_in' = peaks
    /\ calls' = Append(calls, "merge_close")
    /\ UNCHANGED <<cfg, n_pkl, total_frames, smoothed, coarse, anchors, pkl_data, result,
                   contact_smoothed, contacts, cresult>>
    /\ UNCHANGED <<interp_vars, score_vars, refine_vars, slices, video, other>>

\* run_all, step 4
MadOutlier ==
    /\ pc = "mad_outlier"
    /\ LET r == mad_outlier(peaks, smoothed, cfg.xy_outlier_mad_thresh,
                            cfg.xy_outlier_mad_floor, cfg.xy_outlier_min_peaks) IN
         /\ peaks' = r.peaks
         /\ log' = log \o r.log
    /\ pc' = "followthrough"
    /\ peaks_in' = peaks
    /\ calls' = Append(calls, "mad_outlier")
    /\ UNCHANGED <<cfg, n_pkl, total_frames, smoothed, coarse, anchors, pkl_data, result,
                   contact_smoothed, contacts, cresult>>
    /\ UNCHANGED <<interp_vars, score_vars, refine_vars, slices, video, other>>

\* run_all, step 5.  The keypoints are first read here, and only those of the
\* peaks' frames, and only when the filter is not skipped.
FollowThrough ==
    /\ pc = "followthrough"
    /\ \E kp \in Keypoints(IF pkl_data.loaded /\ Len(peaks) >= cfg.xy_outlier_min_peaks
                            THEN Range(peaks) ELSE {}) :
         LET r == followthrough(peaks, [pkl_data EXCEPT !.kp = kp], cfg) IN
           /\ pkl_data' = [pkl_data EXCEPT !.kp = kp]
           /\ peaks' = r.peaks
           /\ log' = log \o r.log
    /\ pc' = "return"
    /\ peaks_in' = peaks
    /\ calls' = Append(calls, "followthrough")
    /\ UNCHANGED <<cfg, n_pkl, total_frames, smoothed, coarse, anchors, result,
                   contact_smoothed, contacts, cresult>>
    /\ UNCHANGED <<interp_vars, score_vars, refine_vars, slices, video, other>>

\* run_all returns (peaks, log) and detect_backswings builds the DetectionResult;
\* the run keeps the fields detect_contacts reads
Assemble ==
    /\ pc = "return"
    /\ result' = [peak_frames |-> peaks, filter_log |-> log]
    /\ pc' = "detect_contacts"
    /\ smoothed' = NoSignal
    /\ anchors' = <<>>
    /\ pkl_data' = [pkl_data EXCEPT !.kp = <<>>]
    /\ peaks_in' = <<>>
    /\ peaks' = <<>>
    /\ log' = <<>>
    /\ calls' = Append(calls, "DetectionResult")
    /\ UNCHANGED <<cfg, n_pkl, total_frames, coarse, contact_smoothed, contacts, cresult>>
    /\ UNCHANGED <<interp_vars, score_vars, refine_vars, slices, video, other>>

\* detect_contacts: detect_contact_points on the result's peaks
DetectContactPoints ==
    /\ pc = "detect_contacts"
    /\ \E sm \in SavgolContact :
         /\ contact_smoothed' = sm
         /\ contacts' = detect_contact_points(result.peak_frames, sm, n_pkl, cfg)
    /\ pc' = "contact_dedup"
    /\ calls' = Append(calls, "detect_contact_points")
    /\ slices' = ContactSlices(result.peak_frames, n_pkl, cfg)
    /\ UNCHANGED <<cfg, n_pkl, total_frames, smoothed, coarse, anchors, peaks_in, peaks,
                   log, pkl_data, result, cresult>>
    /\ UNCHANGED <<interp_vars, score_vars, refine_vars, video, other>>

\* detect_contacts: dedup, and the ContactResult
ContactDedup ==
    /\ pc = "contact_dedup"
    /\ LET r == dedup(contacts) IN
         cresult' = [contact_frames |-> r.peaks, filter_log |-> r.log]
    /\ pc' = "done"
    /\ calls' = Append(calls, "contact_dedup")
    /\ UNCHANGED <<cfg, n_pkl, total_frames, smoothed, coarse, anchors, peaks_in, peaks,
                   log, pkl_data, result, contact_smoothed, contacts>>
    /\ UNCHANGED <<interp_vars, score_vars, refine_vars, slices, video, other>>

Next ==
    \/ FindAnchors
    \/ SearchAndRefine
    \/ Dedup
    \/ TrimEnd
    \/ MergeClose
    \/ MadOutlier
    \/ FollowThrough
    \/ Assemble
    \/ DetectContactPoints
    \/ ContactDedup

Spec == Init /\ [][Next]_vars

---------------------------------------------------------------------------
(* run_all on any candidate array: filters.run_all(peaks, smoothed,
   total_frames, pkl_data, cfg) called directly, pkl_data possibly None *)

FilterConfigs ==
    { [BaseConfig EXCEPT !.min_swing_gap = g, !.end_of_video_pct = p]
        : g \in {1, 2, 3}, p \in {<<0, 4>>, <<1, 4>>} }

InitFilters ==
    /\ pc = "run_all"
    /\ cfg \in FilterConfigs
    /\ n_pkl = MaxN
    /\ total_frames \in (MaxN - 1)..MaxN
    /\ smoothed \in Signals(MaxN)
    /\ coarse = NoSignal
    /\ anchors = <<>>
    /\ peaks_in = <<>>
    /\ peaks \in PeakArrays(MaxN)
    /\ log = <<>>
    /\ calls = <<>>
    /\ pkl_data \in {[loaded |-> b, kp |-> <<>>] : b \in BOOLEAN}
    /\ result = <<>>
    /\ contact_smoothed = NoSignal
    /\ contacts = <<>>
    /\ cresult = <<>>
    /\ InterpIdle
    /\ ScoreIdle
    /\ RefineIdle
    /\ slices = <<>>
    /\ video = NoVideo
    /\ other = NoRun

\* run_all's return to a direct caller
Return ==
    /\ pc = "return"
    /\ pc' = "returned"
    /\ calls' = Append(calls, "return")
    /\ UNCHANGED <<cfg, n_pkl, total_frames, smoothed, coarse, anchors, peaks_in, peaks,
                   log, pkl_data, result, contact_smoothed, contacts, cresult>>
    /\ UNCHANGED <<interp_vars, score_vars, refine_vars, slices, video, other>>

NextFilters ==
    \/ Dedup
    \/ TrimEnd
    \/ MergeClose
    \/ MadOutlier
    \/ FollowThrough
    \/ Return

SpecFilters == InitFilters /\ [][NextFilters]_vars

---------------------------------------------------------------------------
(* detect_contacts on any DetectionResult whose peak_frames is strictly
   increasing (as run_all returns it), under any Config of the run: the Config
   given to detect_contacts need not be the one detect_backswings ran with *)

ContactConfigs ==
    { [BaseConfig EXCEPT !.contact_search_min = cmin, !.contact_search_max = cmax]
        : cmin \in {1, 2}, cmax \in {2, 3} }

InitContact ==
    /\ pc = "detect_contacts"
    /\ cfg \in ContactConfigs
    /\ n_pkl = MaxN
    /\ total_frames = MaxN
    /\ smoothed = NoSignal
    /\ coarse = NoSignal
    /\ anchors = <<>>
    /\ peaks_in = <<>>
    /\ peaks = <<>>
    /\ log = <<>>
    /\ calls = <<>>
    /\ pkl_data = NoKeypoints
    /\ result \in {[peak_frames |-> b, filter_log |-> <<>>] :
                     b \in {a \in IncreasingSeqs(0..(MaxN - 1)) : Len(a) <= MaxPeaks}}
    /\ contact_smoothed = NoSignal
    /\ contacts = <<>>
    /\ cresult = <<>>
    /\ InterpIdle
    /\ ScoreIdle
    /\ RefineIdle
    /\ slices = <<>>
    /\ video = NoVideo
    /\ other = NoRun

NextContact ==
    \/ DetectContactPoints
    \/ ContactDedup

SpecContact == InitContact /\ [][NextContact]_vars

---------------------------------------------------------------------------
(* dedup applied to any array, and again to its own result *)

InitDedup ==
    /\ pc = "dedup_1"
    /\ cfg = BaseConfig
    /\ n_pkl = MaxN
    /\ total_frames = MaxN
    /\ smoothed = NoSignal
    /\ coarse = NoSignal
    /\ anchors = <<>>
    /\ peaks_in = <<>>
    /\ peaks \in PeakArrays(MaxN)
    /\ log = <<>>
    /\ calls = <<>>
    /\ pkl_data = NoKeypoints
    /\ result = <<>>
    /\ contact_smoothed = NoSignal
    /\ contacts = <<>>
    /\ cresult = <<>>
    /\ InterpIdle
    /\ ScoreIdle
    /\ RefineIdle
    /\ slices = <<>>
    /\ video = NoVideo
    /\ other = NoRun

\* peaks, l = dedup(peaks); log.extend(l)
ApplyDedup ==
    /\ pc \in {"dedup_1", "dedup_2"}
    /\ LET r == dedup(peaks) IN
         /\ peaks' = r.peaks
         /\ log' = log \o r.log
    /\ peaks_in' = peaks
    /\ calls' = Append(calls, "dedup")
    /\ pc' = IF pc = "dedup_1" THEN "dedup_2" ELSE "dedup_done"
    /\ UNCHANGED <<cfg, n_pkl, total_frames, smoothed, coarse, anchors, pkl_data, result,
                   contact_smoothed, contacts, cresult>>
    /\ UNCHANGED <<interp_vars, score_vars, refine_vars, slices, video, other>>

NextDedup == ApplyDedup

SpecDedup == InitDedup /\ [][NextDedup]_vars

---------------------------------------------------------------------------
(* interp_low_conf on any channel and confidence array, and again on its own
   result with the same confidence array and threshold *)

InterpConfigs == { [BaseConfig EXCEPT !.conf_threshold = t] : t \in {1, 2} }

\* whole-pixel coordinates 0..MaxVal
Channels(n) == { [i \in 0..(n - 1) |-> InterpScale(n) * r[i]] : r \in Signals(n) }

InitInterp ==
    /\ pc = "interp_low_conf"
    /\ cfg \in InterpConfigs
    /\ n_pkl = MaxN - 1
    /\ total_frames = MaxN - 1
    /\ smoothed = NoSignal
    /\ coarse = NoSignal
    /\ anchors = <<>>
    /\ peaks_in = <<>>
    /\ peaks = <<>>
    /\ log = <<>>
    /\ calls = <<>>
    /\ pkl_data = NoKeypoints
    /\ result = <<>>
    /\ contact_smoothed = NoSignal
    /\ contacts = <<>>
    /\ cresult = <<>>
    /\ signal \in Channels(MaxN - 1)
    /\ conf \in [0..(MaxN - 2) -> ConfLevels]
    /\ interp_out = NoSignal
    /\ interp_out2 = NoSignal
    /\ wrists = NoSignal
    /\ combined = NoSignal
    /\ ScoreIdle
    /\ RefineIdle
    /\ slices = <<>>
    /\ video = NoVideo
    /\ other = NoRun

\* out = interp_low_conf(signal, conf, threshold)
InterpLowConf ==
    /\ pc = "interp_low_conf"
    /\ interp_out' = interp_low_conf(signal, conf, cfg.conf_threshold)
    /\ pc' = "interp_again"
    /\ calls' = Append(calls, "interp_low_conf")
    /\ UNCHANGED <<cfg, n_pkl, total_frames, smoothed, coarse, anchors, peaks_in, peaks,
                   log, pkl_data, result, contact_smoothed, contacts, cresult>>
    /\ UNCHANGED <<signal, conf, interp_out2, wrists, combined, score_vars, refine_vars, slices, video, other>>

\* interp_low_conf(out, conf, threshold)
InterpAgain ==
    /\ pc = "interp_again"
    /\ interp_out2' = interp_low_conf(interp_out, conf, cfg.conf_threshold)
    /\ pc' = "interp_done"
    /\ calls' = Append(calls, "interp_low_conf")
    /\ UNCHANGED <<cfg, n_pkl, total_frames, smoothed, coarse, anchors, peaks_in, peaks,
                   log, pkl_data, result, contact_smoothed, contacts, cresult>>
    /\ UNCHANGED <<signal, conf, interp_out, wrists, combined, score_vars, refine_vars, slices, video, other>>

NextInterp ==
    \/ InterpLowConf
    \/ InterpAgain

SpecInterp == InitInterp /\ [][NextInterp]_vars

---------------------------------------------------------------------------
(* Runs on videos whose arrays are fixed before the run *)

\* the videos of n keypoint frames with the given smoothed signals: every
\* anchor array find_peaks may return, one pose in every frame
VideosOf(fine, crs, sm, n, total, c) ==
    UNION { { [given |-> TRUE, smoothed |-> sig, coarse |-> crs, anchors |-> a,
               keypoints |-> [f \in 0..(n - 1) |-> CHOOSE q \in Poses : q.left_wrist = 0],
               contact_smoothed |-> sm]
              : a \in find_peaks(SuppressedNeg(sig, n, total), n,
                                 c.peak_prominence, c.peak_distance) }
            : sig \in fine }

\* a fine signal that is low exactly on the frames D
LowOn(D, n) == [i \in 0..(n - 1) |-> IF i \in D THEN 0 ELSE MaxVal]

\* three videos' signals: two dips, of which the second one's refinement falls
\* back onto the first; one dip; a flat signal
RunVideos(n, total, c) ==
    VideosOf({LowOn({1} \cup 3..(n - 1), n), LowOn({2}, n), LowOn({}, n)},
             [i \in 0..(n - 1) |-> IF i = 2 THEN 1 ELSE 0],
             [i \in 0..(n - 1) |-> IF i = n - 1 THEN MaxVal ELSE 0],
             n, total, c)

\* the local state of the running invocation
RunLocal ==
    [ pc |-> pc, n_pkl |-> n_pkl, total_frames |-> total_frames, smoothed |-> smoothed,
      coarse |-> coarse, anchors |-> anchors, peaks_in |-> peaks_in, peaks |-> peaks,
      log |-> log, calls |-> calls, pkl_data |-> pkl_data, result |-> result,
      contact_smoothed |-> contact_smoothed, contacts |-> contacts, cresult |-> cresult,
      video |-> video, slices |-> slices ]

\* the local state of an invocation that has not started
NewRun(v, n, total) ==
    [ pc |-> "find_anchors", n_pkl |-> n, total_frames |-> total, smoothed |-> NoSignal,
      coarse |-> NoSignal, anchors |-> <<>>, peaks_in |-> <<>>, peaks |-> <<>>,
      log |-> <<>>, calls |-> <<>>, pkl_data |-> NoKeypoints, result |-> <<>>,
      contact_smoothed |-> NoSignal, contacts |-> <<>>, cresult |-> <<>>,
      video |-> v, slices |-> <<>> ]

\* two invocations, one Config object between them
InitRuns ==
    /\ pc = "find_anchors"
    /\ cfg = BaseConfig
    /\ n_pkl = MaxN
    /\ total_frames = MaxN
    /\ smoothed = NoSignal
    /\ coarse = NoSignal
    /\ anchors = <<>>
    /\ peaks_in = <<>>
    /\ peaks = <<>>
    /\ log = <<>>
    /\ calls = <<>>
    /\ pkl_data = NoKeypoints
    /\ result = <<>>
    /\ contact_smoothed = NoSignal
    /\ contacts = <<>>
    /\ cresult = <<>>
    /\ InterpIdle
    /\ ScoreIdle
    /\ RefineIdle
    /\ slices = <<>>
    /\ video \in RunVideos(MaxN, MaxN, BaseConfig)
    /\ other \in {NewRun(v, MaxN, MaxN) : v \in RunVideos(MaxN, MaxN, BaseConfig)}

\* run_all's log is one list that every invocation appends to
ResumedLog_shared(run) == log

\* log = []: the list an invocation appends to is its own
ResumedLog(run) == run.log

\* the running invocation is suspended and the other one resumes
Switch ==
    /\ other' = RunLocal
    /\ pc' = other.pc
    /\ n_pkl' = other.n_pkl
    /\ total_frames' = other.total_frames
    /\ smoothed' = other.smoothed
    /\ coarse' = other.coarse
    /\ anchors' = other.anchors
    /\ peaks_in' = other.peaks_in
    /\ peaks' = other.peaks
    /\ log' = ResumedLog(other)
    /\ calls' = other.calls
    /\ pkl_data' = other.pkl_data
    /\ result' = other.result
    /\ contact_smoothed' = other.contact_smoothed
    /\ contacts' = other.contacts
    /\ cresult' = other.cresult
    /\ video' = other.video
    /\ UNCHANGED <<cfg, interp_vars, score_vars, refine_vars>>
    /\ slices' = other.slices

NextRuns ==
    \/ FindAnchors
    \/ SearchAndRefine
    \/ Dedup
    \/ TrimEnd
    \/ MergeClose
    \/ MadOutlier
    \/ FollowThrough
    \/ Assemble
    \/ DetectContactPoints
    \/ ContactDedup
    \/ Switch

SpecRuns == InitRuns /\ [][NextRuns]_vars

---------------------------------------------------------------------------
(* Frame effects: one run on a fixed video, interp_low_conf on a channel, and
   build_combined on the six wrist arrays *)

\* every fine signal, with every anchor array find_peaks may return for it
Videos(n, total, c) ==
    VideosOf(Signals(n),
             [i \in 0..(n - 1) |-> IF i = 2 THEN 1 ELSE 0],
             [i \in 0..(n - 1) |-> IF i = n - 1 THEN MaxVal ELSE 0],
             n, total, c)

InitVideo ==
    /\ pc = "find_anchors"
    /\ cfg \in Configs
    /\ n_pkl = MaxN
    /\ total_frames \in (MaxN - 1)..(MaxN + 1)
    /\ smoothed = NoSignal
    /\ coarse = NoSignal
    /\ anchors = <<>>
    /\ peaks_in = <<>>
    /\ peaks = <<>>
    /\ log = <<>>
    /\ calls = <<>>
    /\ pkl_data = NoKeypoints
    /\ result = <<>>
    /\ contact_smoothed = NoSignal
    /\ contacts = <<>>
    /\ cresult = <<>>
    /\ InterpIdle
    /\ ScoreIdle
    /\ RefineIdle
    /\ slices = <<>>
    /\ video \in Videos(n_pkl, total_frames, cfg)
    /\ other = NoRun

\* the wrist arrays of MaxN - 2 frames: any left-wrist x and right-wrist y
\* channel, a ramp for the other two, any left-wrist confidence and its mirror
\* image for the right wrist
WristArrays(n) ==
    { [x_l |-> a,
       x_r |-> [i \in 0..(n - 1) |-> InterpScale(n) * Min2(i, MaxVal)],
       y_l |-> [i \in 0..(n - 1) |-> InterpScale(n) * Min2(i, MaxVal)],
       y_r |-> b,
       c_l |-> k,
       c_r |-> [i \in 0..(n - 1) |-> k[n - 1 - i]]]
        : a \in Channels(n), b \in Channels(n), k \in [0..(n - 1) -> ConfLevels] }

InitBuild ==
    /\ pc = "build_combined"
    /\ cfg \in InterpConfigs
    /\ n_pkl = MaxN - 2
    /\ total_frames = MaxN - 2
    /\ smoothed = NoSignal
    /\ coarse = NoSignal
    /\ anchors = <<>>
    /\ peaks_in = <<>>
    /\ peaks = <<>>
    /\ log = <<>>
    /\ calls = <<>>
    /\ pkl_data = NoKeypoints
    /\ result = <<>>
    /\ contact_smoothed = NoSignal
    /\ contacts = <<>>
    /\ cresult = <<>>
    /\ signal = NoSignal
    /\ conf = NoSignal
    /\ interp_out = NoSignal
    /\ interp_out2 = NoSignal
    /\ wrists \in WristArrays(MaxN - 2)
    /\ combined = NoSignal
    /\ ScoreIdle
    /\ RefineIdle
    /\ slices = <<>>
    /\ video = NoVideo
    /\ other = NoRun

\* combined = build_combined(x_l, x_r, y_l, y_r, c_l, c_r, cfg.conf_threshold)
BuildCombined ==
    /\ pc = "build_combined"
    /\ combined' = build_combined(wrists.x_l, wrists.x_r, wrists.y_l, wrists.y_r,
                                  wrists.c_l, wrists.c_r, cfg.conf_threshold)
    /\ pc' = "built"
    /\ calls' = Append(calls, "build_combined")
    /\ UNCHANGED <<cfg, n_pkl, total_frames, smoothed, coarse, anchors, peaks_in, peaks,
                   log, pkl_data, result, contact_smoothed, contacts, cresult>>
    /\ UNCHANGED <<signal, conf, interp_out, interp_out2, wrists, score_vars, refine_vars, slices, video, other>>

InitFrame ==
    \/ InitVideo
    \/ InitInterp
    \/ InitBuild

NextFrame ==
    \/ Next
    \/ NextInterp
    \/ BuildCombined

SpecFrame == InitFrame /\ [][NextFrame]_vars

---------------------------------------------------------------------------
(* mad_outlier on any strictly increasing peak array, any signal with values
   far enough apart for an outlier, and multipliers, floors and minimum peak
   counts around the filter's edges (a zero floor included) *)

OutlierSignals(n) == [0..(n - 1) -> {0, 1, MaxVal + 2}]

MadConfigs ==
    { [BaseConfig EXCEPT !.xy_outlier_mad_thresh = t, !.xy_outlier_mad_floor = f,
                         !.xy_outlier_min_peaks = k]
        : t \in {1, 2}, f \in {0, 1}, k \in {2, 3} }

InitMad ==
    /\ pc = "mad_outlier"
    /\ cfg \in MadConfigs
    /\ n_pkl = MaxN
    /\ total_frames = MaxN
    /\ smoothed \in OutlierSignals(MaxN)
    /\ coarse = NoSignal
    /\ anchors = <<>>
    /\ peaks_in = <<>>
    /\ peaks \in {a \in IncreasingSeqs(0..(MaxN - 1)) : Len(a) <= MaxPeaks}
    /\ log = <<>>
    /\ calls = <<>>
    /\ pkl_data = NoKeypoints
    /\ result = <<>>
    /\ contact_smoothed = NoSignal
    /\ contacts = <<>>
    /\ cresult = <<>>
    /\ InterpIdle
    /\ ScoreIdle
    /\ RefineIdle
    /\ slices = <<>>
    /\ video = NoVideo
    /\ other = NoRun

NextMad == MadOutlier

SpecMad == InitMad /\ [][NextMad]_vars

---------------------------------------------------------------------------
(* followthrough on any strictly increasing peak array, with or without a
   keypoint source, any pose in the frames it reads *)

FollowConfigs ==
    { [BaseConfig EXCEPT !.xoff_mad_thresh = t, !.xoff_mad_floor = f,
                         !.xy_outlier_min_peaks = k]
        : t \in {1, 2, 3}, f \in {0, 1}, k \in {2, 3} }

InitFollow ==
    /\ pc = "followthrough"
    /\ cfg \in FollowConfigs
    /\ n_pkl = MaxN
    /\ total_frames = MaxN
    /\ smoothed = NoSignal
    /\ coarse = NoSignal
    /\ anchors = <<>>
    /\ peaks_in = <<>>
    /\ peaks \in {a \in IncreasingSeqs(0..(MaxN - 1)) : Len(a) <= MaxPeaks}
    /\ log = <<>>
    /\ calls = <<>>
    /\ pkl_data \in {[loaded |-> b, kp |-> <<>>] : b \in BOOLEAN}
    /\ result = <<>>
    /\ contact_smoothed = NoSignal
    /\ contacts = <<>>
    /\ cresult = <<>>
    /\ InterpIdle
    /\ ScoreIdle
    /\ RefineIdle
    /\ slices = <<>>
    /\ video = NoVideo
    /\ other = NoRun

NextFollow == FollowThrough

SpecFollow == InitFollow /\ [][NextFollow]_vars

---------------------------------------------------------------------------
(* backswing_score on any candidate frame of any signal, for windows shorter
   than, equal to and longer than what lies on either side of the candidate *)

ScoreConfigs ==
    { [BaseConfig EXCEPT !.look_behind = b, !.look_ahead = a] : b \in 1..3, a \in 1..3 }

InitScore ==
    /\ pc = "backswing_score"
    /\ cfg \in ScoreConfigs
    /\ n_pkl = MaxN
    /\ total_frames = MaxN
    /\ smoothed \in OutlierSignals(MaxN)
    /\ coarse = NoSignal
    /\ anchors = <<>>
    /\ peaks_in = <<>>
    /\ peaks = <<>>
    /\ log = <<>>
    /\ calls = <<>>
    /\ pkl_data = NoKeypoints
    /\ result = <<>>
    /\ contact_smoothed = NoSignal
    /\ contacts = <<>>
    /\ cresult = <<>>
    /\ InterpIdle
    /\ cand \in 0..(MaxN - 1)
    /\ score = NoScore
    /\ RefineIdle
    /\ slices = <<>>
    /\ video = NoVideo
    /\ other = NoRun

BackswingScore ==
    /\ pc = "backswing_score"
    /\ score' = backswing_score(cand, smoothed, n_pkl, cfg)
    /\ slices' = ScoreSlices(cand, n_pkl, cfg)
    /\ pc' = "scored"
    /\ UNCHANGED <<cfg, n_pkl, total_frames, smoothed, coarse, anchors, peaks_in, peaks,
                   log, calls, pkl_data, result, contact_smoothed, contacts, cresult,
                   interp_vars, cand, refine_vars, video, other>>

NextScore == BackswingScore

SpecScore == InitScore /\ [][NextScore]_vars

---------------------------------------------------------------------------
(* search_and_refine step by step: the loop over the anchors, each iteration's
   backward search, choice and refinement, on any fine and coarse signal and
   any strictly increasing anchor array *)

RefineConfigs ==
    { [BaseConfig EXCEPT !.search_back = b, !.refine_window = w] : b \in {1, 3, 4}, w \in 0..2 }

InitRefine ==
    /\ pc = "search_and_refine"
    /\ cfg \in RefineConfigs
    /\ n_pkl = MaxN
    /\ total_frames = MaxN
    /\ smoothed \in Signals(MaxN)
    /\ coarse \in CoarseSignals(MaxN)
    /\ anchors \in {a \in IncreasingSeqs(0..(MaxN - 1)) : Len(a) <= MaxPeaks - 1}
    /\ peaks_in = <<>>
    /\ peaks = <<>>
    /\ log = <<>>
    /\ calls = <<>>
    /\ pkl_data = NoKeypoints
    /\ result = <<>>
    /\ contact_smoothed = NoSignal
    /\ contacts = <<>>
    /\ cresult = <<>>
    /\ InterpIdle
    /\ ScoreIdle
    /\ RefineIdle
    /\ slices = <<>>
    /\ video = NoVideo
    /\ other = NoRun

\* for anchor in anchors: the anchor of the iteration that runs next
Anchor == anchors[Len(peaks) + 1]

RefineFrame ==
    UNCHANGED <<cfg, n_pkl, total_frames, smoothed, coarse, anchors, peaks_in, log, calls,
                pkl_data, result, contact_smoothed, contacts, cresult,
                interp_vars, score_vars, video, other>>

\* ss, d, candidates (with the anchor appended)
BackwardSearch ==
    /\ pc = "search_and_refine"
    /\ Len(peaks) < Len(anchors)
    /\ candidates' = CandidatesOf(Anchor, coarse, cfg)
    /\ slices' = <<CoarseSlice(Anchor, cfg)>>
    /\ pc' = "choose_best"
    /\ UNCHANGED <<peaks, best>>
    /\ RefineFrame

\* best = candidates[np.argmin(scores)]
ChooseBest ==
    /\ pc = "choose_best"
    /\ best' = BestOf(candidates, smoothed, n_pkl, cfg)
    /\ slices' = CandidateSlices(candidates, n_pkl, cfg)
    /\ pc' = "refine"
    /\ UNCHANGED <<peaks, candidates>>
    /\ RefineFrame

\* results.append(best + int(np.argmin(refine)))
Refine ==
    /\ pc = "refine"
    /\ peaks' = Append(peaks, RefinedFrom(best, smoothed, n_pkl, cfg))
    /\ slices' = <<RefineSlice(best, n_pkl, cfg)>>
    /\ pc' = "search_and_refine"
    /\ UNCHANGED <<candidates, best>>
    /\ RefineFrame

\* return np.array(results)
ReturnResults ==
    /\ pc = "search_and_refine"
    /\ Len(peaks) = Len(anchors)
    /\ pc' = "refined"
    /\ UNCHANGED <<peaks, candidates, best, slices>>
    /\ RefineFrame

NextRefine == BackwardSearch \/ ChooseBest \/ Refine \/ ReturnResults

SpecRefine == InitRefine /\ [][NextRefine]_vars

---------------------------------------------------------------------------
(* merge_close on any non-empty strictly increasing peak array, over signals with
   three levels, so that a peak can replace a peak that replaced another *)

MergeConfigs == { [BaseConfig EXCEPT !.min_swing_gap = g] : g \in 1..3 }

InitMerge ==
    /\ pc = "merge_close"
    /\ cfg \in MergeConfigs
    /\ n_pkl = MaxN
    /\ total_frames = MaxN
    /\ smoothed \in OutlierSignals(MaxN)
    /\ coarse = NoSignal
    /\ anchors = <<>>
    /\ peaks_in = <<>>
    /\ peaks \in {a \in IncreasingSeqs(0..(MaxN - 1)) : Len(a) >= 1 /\ Len(a) <= MaxPeaks}
    /\ log = <<>>
    /\ calls = <<>>
    /\ pkl_data = NoKeypoints
    /\ result = <<>>
    /\ contact_smoothed = NoSignal
    /\ contacts = <<>>
    /\ cresult = <<>>
    /\ InterpIdle
    /\ ScoreIdle
    /\ RefineIdle
    /\ slices = <<>>
    /\ video = NoVideo
    /\ other = NoRun

NextMerge == MergeClose

SpecMerge == InitMerge /\ [][NextMerge]_vars

---------------------------------------------------------------------------
(* run_all from the point where trim_end has returned a non-empty set: the
   remaining three filters, with multipliers and floors down to zero *)

ChainConfigs ==
    { [BaseConfig EXCEPT !.min_swing_gap = g, !.xy_outlier_mad_thresh = mt,
                         !.xy_outlier_mad_floor = f, !.xoff_mad_thresh = xt,
                         !.xoff_mad_floor = f, !.xy_outlier_min_peaks = k]
        : g \in {2}, mt \in {0, 1}, xt \in {0, 2}, f \in {0, 1}, k \in {1, 3} }

InitChain ==
    /\ pc = "merge_close"
    /\ cfg \in ChainConfigs
    /\ n_pkl = MaxN
    /\ total_frames = MaxN
    /\ smoothed \in OutlierSignals(MaxN)
    /\ coarse = NoSignal
    /\ anchors = <<>>
    /\ peaks_in = <<>>
    /\ peaks \in {a \in IncreasingSeqs(0..(MaxN - 1)) : Len(a) >= 1 /\ Len(a) <= MaxPeaks}
    /\ log = <<>>
    /\ calls = <<>>
    /\ pkl_data = NoKeypoints
    /\ result = <<>>
    /\ contact_smoothed = NoSignal
    /\ contacts = <<>>
    /\ cresult = <<>>
    /\ InterpIdle
    /\ ScoreIdle
    /\ RefineIdle
    /\ slices = <<>>
    /\ video = NoVideo
    /\ other = NoRun

NextChain == MergeClose \/ MadOutlier \/ FollowThrough \/ Return

SpecChain == InitChain /\ [][NextChain]_vars

---------------------------------------------------------------------------
(* run_all from any candidate array over two-level signals, and from any
   non-empty trimmed set over three-level signals with multipliers and floors
   at which the last two filters remove peaks *)

InitLog == InitFilters \/ InitChain

NextLog == NextFilters

SpecLog == InitLog /\ [][NextLog]_vars

---------------------------------------------------------------------------
(* The whole pipeline with contact windows shorter than, and as long as, the
   minimum swing gap *)

PairingConfigs ==
    { [BaseConfig EXCEPT !.end_of_video_pct = <<0, 4>>,
                         !.contact_search_min = cmin, !.contact_search_max = cmax]
        : cmin \in {1, 2}, cmax \in {2, 3} }

InitPairing ==
    /\ pc = "find_anchors"
    /\ cfg \in PairingConfigs
    /\ n_pkl = MaxN
    /\ total_frames \in MaxN..(MaxN + 1)
    /\ smoothed = NoSignal
    /\ coarse = NoSignal
    /\ anchors = <<>>
    /\ peaks_in = <<>>
    /\ peaks = <<>>
    /\ log = <<>>
    /\ calls = <<>>
    /\ pkl_data = NoKeypoints
    /\ result = <<>>
    /\ contact_smoothed = NoSignal
    /\ contacts = <<>>
    /\ cresult = <<>>
    /\ InterpIdle
    /\ ScoreIdle
    /\ RefineIdle
    /\ slices = <<>>
    /\ video = NoVideo
    /\ other = NoRun

NextPairing == Next

SpecPairing == InitPairing /\ [][NextPairing]_vars

---------------------------------------------------------------------------
(* The windowed searches with windows of any non-negative size: empty, short,
   and longer than the signal; a contact window may end before it starts *)

ScoreWindowConfigs ==
    { [BaseConfig EXCEPT !.look_behind = b, !.look_ahead = a]
        : b \in {0, 1, 3, MaxN + 1}, a \in {0, 1, 2, MaxN + 1} }

RefineWindowConfigs ==
    { [BaseConfig EXCEPT !.search_back = b, !.refine_window = w]
        : b \in {0, 2, MaxN + 1}, w \in {0, 2, MaxN + 1} }

ContactWindowConfigs ==
    { [BaseConfig EXCEPT !.contact_search_min = cmin, !.contact_search_max = cmax]
        : cmin \in {0, 1, 3, MaxN + 1}, cmax \in {0, 2, MaxN + 1} }

InitScoreWindows ==
    /\ pc = "backswing_score"
    /\ cfg \in ScoreWindowConfigs
    /\ n_pkl = MaxN
    /\ total_frames = MaxN
    /\ smoothed \in Signals(MaxN)
    /\ coarse = NoSignal
    /\ anchors = <<>>
    /\ peaks_in = <<>>
    /\ peaks = <<>>
    /\ log = <<>>
    /\ calls = <<>>
    /\ pkl_data = NoKeypoints
    /\ result = <<>>
    /\ contact_smoothed = NoSignal
    /\ contacts = <<>>
    /\ cresult = <<>>
    /\ InterpIdle
    /\ cand \in 0..(MaxN - 1)
    /\ score = NoScore
    /\ RefineIdle
    /\ slices = <<>>
    /\ video = NoVideo
    /\ other = NoRun

InitRefineWindows ==
    /\ pc = "search_and_refine"
    /\ cfg \in RefineWindowConfigs
    /\ n_pkl = MaxN
    /\ total_frames = MaxN
    /\ smoothed \in Signals(MaxN)
    /\ coarse \in CoarseSignals(MaxN)
    /\ anchors \in {a \in IncreasingSeqs(0..(MaxN - 1)) : Len(a) <= 1}
    /\ peaks_in = <<>>
    /\ peaks = <<>>
    /\ log = <<>>
    /\ calls = <<>>
    /\ pkl_data = NoKeypoints
    /\ result = <<>>
    /\ contact_smoothed = NoSignal
    /\ contacts = <<>>
    /\ cresult = <<>>
    /\ InterpIdle
    /\ ScoreIdle
    /\ RefineIdle
    /\ slices = <<>>
    /\ video = NoVideo
    /\ other = NoRun

InitContactWindows ==
    /\ pc = "detect_contacts"
    /\ cfg \in ContactWindowConfigs
    /\ n_pkl = MaxN
    /\ total_frames = MaxN
    /\ smoothed = NoSignal
    /\ coarse = NoSignal
    /\ anchors = <<>>
    /\ peaks_in = <<>>
    /\ peaks = <<>>
    /\ log = <<>>
    /\ calls = <<>>
    /\ pkl_data = NoKeypoints
    /\ result \in {[peak_frames |-> b, filter_log |-> <<>>] :
                     b \in {a \in IncreasingSeqs(0..(MaxN - 1)) : Len(a) <= MaxPeaks}}
    /\ contact_smoothed = NoSignal
    /\ contacts = <<>>
    /\ cresult = <<>>
    /\ InterpIdle
    /\ ScoreIdle
    /\ RefineIdle
    /\ slices = <<>>
    /\ video = NoVideo
    /\ other = NoRun

InitWindows == InitScoreWindows \/ InitRefineWindows \/ InitContactWindows

NextWindows == NextScore \/ NextRefine \/ NextContact

SpecWindows == InitWindows /\ [][NextWindows]_vars

---------------------------------------------------------------------------
(* Properties *)

Filters == {"dedup", "trim_end", "merge_close", "mad_outlier", "followthrough"}

LastCall == IF calls = <<>> THEN "none" ELSE Last(calls)

NonDecreasing(s) == \A i \in 1..(Len(s) - 1) : s[i] <= s[i + 1]

\* C1 as stated: every peak set returned by a filter, by run_all, by
\* search_and_refine / detect_peaks, by detect_contact_points and by
\* detect_contacts is strictly increasing (so without duplicates).
C1_EveryReturnedPeakSetStrictlyIncreasing ==
    /\ LastCall \in Filters \cup {"find_anchors", "search_and_refine"}
          => StrictlyIncreasing(peaks)
    /\ pc \in {"detect_contacts", "contact_dedup", "done"}
          => StrictlyIncreasing(result.peak_frames)
    /\ pc \in {"contact_dedup", "done"} => StrictlyIncreasing(contacts)
    /\ pc = "done" => StrictlyIncreasing(cresult.contact_frames)

\* C1 amended: every peak set returned by the five filters inside run_all, by
\* run_all (detect_backswings' peak_frames) and by detect_contacts is strictly
\* increasing; detect_contact_points' own result is only non-decreasing, and
\* search_and_refine's is not ordered at all.
C1_FilteredPeakSetsStrictlyIncreasing ==
    /\ LastCall \in Filters => StrictlyIncreasing(peaks)
    /\ pc \in {"detect_contacts", "contact_dedup", "done"}
          => StrictlyIncreasing(result.peak_frames)
    /\ pc \in {"contact_dedup", "done"} => NonDecreasing(contacts)
    /\ pc = "done" => StrictlyIncreasing(cresult.contact_frames)

\* a run through search_and_refine and all five filters that accepted two
\* backswings, both of which nominated the contact frame detect_contacts returns
C1_Witness ==
    /\ pc = "done"
    /\ "search_and_refine" \in Range(calls)
    /\ Len(result.peak_frames) >= 2
    /\ Len(cresult.contact_frames) >= 1
    /\ Len(contacts) > Len(cresult.contact_frames)

\* C2 as stated: every backswing frame and every contact frame p has
\* 0 <= p < total_frames, whatever the number N of keypoint frames.
C2_AllFramesBelowTotalFrames ==
    /\ pc \in {"detect_contacts", "contact_dedup", "done"}
          => \A i \in 1..Len(result.peak_frames) :
                0 <= result.peak_frames[i] /\ result.peak_frames[i] < total_frames
    /\ pc = "done"
          => \A i \in 1..Len(cresult.contact_frames) :
                0 <= cresult.contact_frames[i] /\ cresult.contact_frames[i] < total_frames

\* C2 amended: every backswing frame p has 0 <= p < total_frames and p < N;
\* every contact frame p has 0 <= p < N, the number of keypoint frames, which
\* is below total_frames only when N <= total_frames.
C2_FramesWithinVideoAndSignal ==
    /\ pc \in {"detect_contacts", "contact_dedup", "done"}
          => \A i \in 1..Len(result.peak_frames) :
                /\ 0 <= result.peak_frames[i]
                /\ result.peak_frames[i] < total_frames
                /\ result.peak_frames[i] < n_pkl
    /\ pc = "done"
          => \A i \in 1..Len(cresult.contact_frames) :
                /\ 0 <= cresult.contact_frames[i]
                /\ cresult.contact_frames[i] < n_pkl
                /\ (n_pkl <= total_frames => cresult.contact_frames[i] < total_frames)

\* a finished run on a video with fewer frames than keypoint frames, with a
\* backswing and a contact
C2_Witness ==
    /\ pc = "done"
    /\ n_pkl > total_frames
    /\ Len(result.peak_frames) >= 1
    /\ Len(cresult.contact_frames) >= 1

\* C3: after merge_close any two adjacent peaks of its result are at least
\* min_swing_gap frames apart.
C3_MergedPeaksAtLeastGapApart ==
    LastCall = "merge_close"
       => \A i \in 1..(Len(peaks) - 1) : peaks[i + 1] - peaks[i] >= cfg.min_swing_gap

\* merge_close replaced its first kept peak by a deeper one and then kept a
\* further peak
C3_Witness ==
    /\ LastCall = "merge_close"
    /\ Len(peaks_in) = 3
    /\ Len(peaks) = 2
    /\ peaks[1] = peaks_in[2]
    /\ peaks[2] = peaks_in[3]

FilterOrder == <<"dedup", "trim_end", "merge_close", "mad_outlier", "followthrough">>

\* the filters invoked so far, without run_all's return
FilterCalls == SelectSeq(calls, LAMBDA c : c \in Filters)

\* C4: run_all invokes the filters in the order dedup, trim_end, merge_close,
\* mad_outlier, followthrough; it returns the empty set and the log so far
\* right after dedup or trim_end when their result is empty, and otherwise runs
\* all five; trim_end and merge_close are never invoked on an empty peak set.
C4_FilterOrderAndShortCircuit ==
    /\ Len(FilterCalls) <= Len(FilterOrder)
    /\ \A i \in 1..Len(FilterCalls) : FilterCalls[i] = FilterOrder[i]
    /\ LastCall \in {"trim_end", "merge_close"} => peaks_in # <<>>
    /\ pc = "merge_close" => peaks # <<>>
    /\ pc = "returned"
          => \/ FilterCalls = FilterOrder
             \/ /\ FilterCalls \in {<<"dedup">>, <<"dedup", "trim_end">>}
                /\ peaks = <<>>
    /\ pc = "returned" /\ peaks # <<>> => FilterCalls = FilterOrder
    /\ pc = "returned" /\ FilterCalls = <<"dedup">> => log = <<>>
    /\ pc = "returned" /\ FilterCalls = <<"dedup", "trim_end">>
          => log # <<>> /\ Last(log).filter = "End-of-video"

\* run_all returned after trim_end emptied the set, with the log of both filters
C4_Witness ==
    /\ pc = "returned"
    /\ FilterCalls = <<"dedup", "trim_end">>
    /\ peaks = <<>>
    /\ Len(log) = 2

\* C5: dedup returns the sorted distinct values of its input, and applied to
\* its own result it returns the same set and emits no log entry.
C5_DedupIdempotent ==
    [][ /\ pc = "dedup_1" => /\ StrictlyIncreasing(peaks')
                             /\ Range(peaks') = Range(peaks)
        /\ pc = "dedup_2" => /\ peaks' = peaks
                             /\ log' = log ]_vars

\* dedup was applied twice to an array holding a duplicate and two values
C5_Witness ==
    /\ pc = "dedup_done"
    /\ Len(log) = 1
    /\ Len(peaks) = 2

\* C6 as stated: trim_end keeps a peak p exactly when
\* p < total_frames * (1 - end_of_video_pct).
C6_KeptExactlyBelowProduct ==
    LastCall = "trim_end"
       => \A i \in 1..Len(peaks_in) :
             peaks_in[i] \in Range(peaks)
                <=> peaks_in[i] * cfg.end_of_video_pct[2]
                       < total_frames * (cfg.end_of_video_pct[2] - cfg.end_of_video_pct[1])

\* C6 amended: trim_end keeps a peak p exactly when p is below the product
\* truncated to an integer, that is when p + 1 <= total_frames * (1 -
\* end_of_video_pct); it keeps the order of the kept peaks.
C6_KeptExactlyBelowTruncatedProduct ==
    LastCall = "trim_end"
       => /\ \A i \in 1..Len(peaks_in) :
                peaks_in[i] \in Range(peaks)
                   <=> (peaks_in[i] + 1) * cfg.end_of_video_pct[2]
                          <= total_frames * (cfg.end_of_video_pct[2] - cfg.end_of_video_pct[1])
          /\ Range(peaks) \subseteq Range(peaks_in)
          /\ StrictlyIncreasing(peaks)

\* trim_end kept a peak and dropped one that lies below the product but not
\* below its integer part
C6_Witness ==
    /\ LastCall = "trim_end"
    /\ Len(peaks) >= 1
    /\ \E i \in 1..Len(peaks_in) :
          /\ peaks_in[i] \notin Range(peaks)
          /\ peaks_in[i] * cfg.end_of_video_pct[2]
                < total_frames * (cfg.end_of_video_pct[2] - cfg.end_of_video_pct[1])

\* C7: given exactly two peaks closer than min_swing_gap, merge_close returns
\* exactly one of them, and no fine-smoothed value of the two is lower than its.
C7_TwoClosePeaksKeepDeeper ==
    ( /\ LastCall = "merge_close"
      /\ Len(peaks_in) = 2
      /\ peaks_in[2] - peaks_in[1] < cfg.min_swing_gap )
       => /\ Len(peaks) = 1
          /\ peaks[1] \in {peaks_in[1], peaks_in[2]}
          /\ smoothed[peaks[1]] <= smoothed[peaks_in[1]]
          /\ smoothed[peaks[1]] <= smoothed[peaks_in[2]]

\* two close peaks of which the later is strictly deeper, and is the one kept
C7_Witness ==
    /\ LastCall = "merge_close"
    /\ Len(peaks_in) = 2
    /\ peaks_in[2] - peaks_in[1] < cfg.min_swing_gap
    /\ smoothed[peaks_in[2]] < smoothed[peaks_in[1]]
    /\ peaks = <<peaks_in[2]>>

\* the backswings whose search window starts inside the signal
Searched == SelectSeq(result.peak_frames, LAMBDA b : b + cfg.contact_search_min < n_pkl)

WindowStart(b) == b + cfg.contact_search_min
WindowEnd(b) == IF b + cfg.contact_search_max < n_pkl - 1
                THEN b + cfg.contact_search_max ELSE n_pkl - 1

\* C8: for each backswing b with b + contact_search_min < frame_count the
\* nominated contact is the index of the maximum of the contact-smoothed
\* signal over [b + contact_search_min, min(b + contact_search_max,
\* frame_count - 1)] (the first index where it is reached).
C8_ContactIsWindowMaximum ==
    pc \in {"contact_dedup", "done"}
       => \A i \in 1..Len(Searched) :
             /\ i <= Len(contacts)
             /\ contacts[i] \in WindowStart(Searched[i])..WindowEnd(Searched[i])
             /\ \A j \in WindowStart(Searched[i])..WindowEnd(Searched[i]) :
                   /\ contact_smoothed[j] <= contact_smoothed[contacts[i]]
                   /\ j < contacts[i] => contact_smoothed[j] < contact_smoothed[contacts[i]]

\* a backswing whose contact is a strict maximum at the closed end of its window
C8_Witness ==
    /\ pc = "contact_dedup"
    /\ Len(result.peak_frames) = 1
    /\ Len(contacts) = 1
    /\ contacts[1] = result.peak_frames[1] + cfg.contact_search_max
    /\ cfg.contact_search_min < cfg.contact_search_max
    /\ \A j \in WindowStart(result.peak_frames[1])..(contacts[1] - 1) :
          contact_smoothed[j] < contact_smoothed[contacts[1]]

\* C9: a backswing b with b + contact_search_min >= frame_count contributes no
\* contact, every other backswing exactly one: detect_contact_points returns as
\* many nominations as there are backswings with b + contact_search_min <
\* frame_count, so one fewer than backswings when exactly one starts past the end.
C9_OneNominationPerSearchedBackswing ==
    pc \in {"contact_dedup", "done"}
       => /\ Len(contacts) = Len(Searched)
          /\ Len(contacts)
                = Cardinality({i \in 1..Len(result.peak_frames) :
                                 result.peak_frames[i] + cfg.contact_search_min < n_pkl})

\* several backswings of which exactly the last starts its window past the end
C9_Witness ==
    /\ pc = "contact_dedup"
    /\ Len(result.peak_frames) >= 2
    /\ Last(result.peak_frames) + cfg.contact_search_min >= n_pkl
    /\ Len(contacts) = Len(result.peak_frames) - 1

\* C10 as stated: the contact array detect_contact_points returns holds no
\* frame twice.
C10_ContactPointsDeduplicated ==
    pc \in {"contact_dedup", "done"} => NoDuplicates(contacts)

\* C10 amended: the contact set detect_contacts returns holds no frame twice
\* and holds exactly the frames detect_contact_points nominated.
C10_DetectContactsDeduplicated ==
    pc = "done"
       => /\ NoDuplicates(cresult.contact_frames)
          /\ Range(cresult.contact_frames) = Range(contacts)

\* two backswings nominated the same frame and detect_contacts returned it once
C10_Witness ==
    /\ pc = "done"
    /\ Len(contacts) = 2
    /\ contacts[1] = contacts[2]
    /\ cresult.contact_frames = <<contacts[1]>>
    /\ Len(cresult.filter_log) = 1

\* C11: when find_anchors finds no anchor, detect_peaks returns the empty peak
\* set without calling search_and_refine (which is called whenever there is an
\* anchor); run_all then returns the empty set with an empty log, so the
\* DetectionResult has no backswing and an empty filter log; and detect_contacts
\* on a result with no backswing returns an empty contact set with an empty log.
C11_NoAnchorShortCircuitsToEmpty ==
    /\ (calls # <<>> /\ "DetectionResult" \notin Range(calls))
          => IF anchors = <<>>
             THEN /\ "search_and_refine" \notin Range(calls)
                  /\ pc # "search_and_refine"
                  /\ peaks = <<>>
                  /\ log = <<>>
             ELSE pc = "search_and_refine" \/ "search_and_refine" \in Range(calls)
    /\ ("DetectionResult" \in Range(calls) /\ "search_and_refine" \notin Range(calls))
          => result = [peak_frames |-> <<>>, filter_log |-> <<>>]
    /\ (pc \in {"contact_dedup", "done"} /\ result.peak_frames = <<>>)
          => contacts = <<>>
    /\ (pc = "done" /\ result.peak_frames = <<>>)
          => cresult = [contact_frames |-> <<>>, filter_log |-> <<>>]

\* a finished run in which no anchor was found
C11_Witness ==
    /\ pc = "done"
    /\ calls = <<"find_anchors", "dedup", "DetectionResult", "detect_contact_points",
                 "contact_dedup">>
    /\ cresult.contact_frames = <<>>

\* the frames of the channel whose confidence reaches the threshold
GoodFrames == {i \in DOMAIN conf : conf[i] >= cfg.conf_threshold}

\* C12: whenever fewer than 2 samples have confidence >= threshold (none, or
\* exactly one), interp_low_conf returns the input values unchanged, with the
\* same length.
C12_FewGoodSamplesPassThrough ==
    (pc \in {"interp_again", "interp_done"} /\ Cardinality(GoodFrames) < 2)
       => /\ DOMAIN interp_out = DOMAIN signal
          /\ \A i \in DOMAIN signal : interp_out[i] = signal[i]

\* interp_low_conf ran on a channel with exactly one good sample whose value
\* differs from that of a low-confidence sample
C12_Witness ==
    /\ pc = "interp_again"
    /\ Cardinality(GoodFrames) = 1
    /\ \E g \in GoodFrames : \E i \in DOMAIN signal : signal[i] # signal[g]

\* C13: interp_low_conf applied to its own result, with the same confidence
\* array and threshold, returns that result.
C13_InterpIdempotent ==
    pc = "interp_done"
       => /\ DOMAIN interp_out2 = DOMAIN interp_out
          /\ \A i \in DOMAIN interp_out : interp_out2[i] = interp_out[i]

\* both applications ran, and the first replaced two adjacent low-confidence
\* samples by values that are neither the original ones nor equal to each other
C13_Witness ==
    /\ pc = "interp_done"
    /\ \E i \in DOMAIN signal :
          /\ i + 1 \in DOMAIN signal
          /\ interp_out[i] # signal[i]
          /\ interp_out[i + 1] # signal[i + 1]
          /\ interp_out[i] # interp_out[i + 1]

\* C14: the number of contact frames in a ContactResult never exceeds the
\* number of backswing peaks of the DetectionResult it was computed from: each
\* backswing nominates at most one contact, and dedup only removes.
C14_NoMoreContactsThanBackswings ==
    /\ pc \in {"contact_dedup", "done"} => Len(contacts) <= Len(result.peak_frames)
    /\ pc = "done"
          => /\ Len(cresult.contact_frames) <= Len(contacts)
             /\ Len(cresult.contact_frames) <= Len(result.peak_frames)

\* a finished detect_contacts in which one backswing was too near the end to
\* nominate a contact and dedup removed a repeated nomination
C14_Witness ==
    /\ pc = "done"
    /\ Len(contacts) < Len(result.peak_frames)
    /\ Len(cresult.contact_frames) < Len(contacts)
    /\ Len(cresult.contact_frames) >= 1

AsWhenRunAlone(run) ==
    /\ run.pc \in {"detect_contacts", "contact_dedup", "done"}
          => run.result = detect_backswings(run.video, run.n_pkl, run.total_frames, cfg)
    /\ run.pc = "done"
          => run.cresult = detect_contacts(run.result, run.video, run.n_pkl, cfg)

\* C16: two pipeline runs that share only the Config value, their steps
\* interleaved arbitrarily, each produce the result they produce when run
\* alone; a step of one run leaves the other run's state as it was, and a
\* suspended run resumes with exactly the state it was suspended with.
C16_InterleavedRunsIndependent ==
    /\ [](AsWhenRunAlone(RunLocal) /\ AsWhenRunAlone(other))
    /\ [][\/ other' = other
          \/ other' = RunLocal /\ RunLocal' = other]_vars

\* one run has built its DetectionResult and nominated contacts while a run on
\* a different video is suspended in the middle of run_all with a log entry
C16_Witness ==
    /\ pc = "contact_dedup"
    /\ Len(result.peak_frames) >= 1
    /\ Len(contacts) >= 1
    /\ other.pc = "trim_end"
    /\ other.log # <<>>
    /\ other.video # video

\* the steps of run_all, and those of detect_contacts
InRunAll == pc \in {"run_all", "trim_end", "merge_close", "mad_outlier", "followthrough"}
InDetectContacts == pc \in {"detect_contacts", "contact_dedup"}

\* C17: no operation mutates what it is given.  The fine-smoothed signal that
\* find_anchors returns is the smoother's output, untouched by the end-of-video
\* suppression, and stays so through search_and_refine and the filters; every
\* filter leaves its input peak array, the smoothed signal and the keypoint
\* source as they were; search_and_refine leaves the anchors; detect_contacts
\* leaves the DetectionResult and the nominated contacts; interp_low_conf leaves
\* its signal and confidence arrays, build_combined its six wrist arrays; and no
\* step changes the Config or the video's arrays.
C17_NoOperationMutatesItsInput ==
    /\ []((video.given /\ LastCall \in Filters \cup {"find_anchors", "search_and_refine"})
            => smoothed = video.smoothed)
    /\ [][/\ cfg' = cfg
          /\ video' = video
          /\ pc = "search_and_refine" => anchors' = anchors /\ smoothed' = smoothed
          /\ InRunAll => /\ peaks_in' = peaks
                          /\ smoothed' = smoothed
                          /\ pkl_data'.loaded = pkl_data.loaded
          /\ InDetectContacts => result' = result
          /\ pc = "contact_dedup" => contacts' = contacts /\ contact_smoothed' = contact_smoothed
          /\ pc \in {"interp_low_conf", "interp_again"} => signal' = signal /\ conf' = conf
          /\ pc = "interp_again" => interp_out' = interp_out
          /\ pc = "build_combined" => wrists' = wrists]_vars

\* find_anchors has returned anchors found on a signal whose suppressed tail
\* differs from the fine-smoothed signal it returns
C17_Witness ==
    /\ video.given
    /\ LastCall = "find_anchors"
    /\ Len(anchors) >= 1
    /\ (total_frames * 95) \div 100 < n_pkl
    /\ \E i \in 0..(n_pkl - 1) :
          SuppressedNeg(smoothed, n_pkl, total_frames)[i] # -smoothed[i]

\* twice the median, and four times the median absolute deviation, of vals
TwiceMedian(vals) == Median2(vals)
FourTimesMAD(vals) == Median2([i \in 1..Len(vals) |-> Abs(2 * vals[i] - TwiceMedian(vals))])

\* v > median + k * max(MAD, floor), over the integers (both sides times 4)
Exceeds(v, vals, k, floor) ==
    4 * v > 2 * TwiceMedian(vals) + k * Max2(FourTimesMAD(vals), 4 * floor)

\* the fine-smoothed values at the peaks mad_outlier was given
ValuesAtInput == [i \in 1..Len(peaks_in) |-> smoothed[peaks_in[i]]]

\* C18 as stated: mad_outlier returns its input unchanged when given fewer than
\* xy_outlier_min_peaks peaks; otherwise it drops exactly the peaks whose value
\* exceeds median + mad_thresh x max(MAD, mad_floor) and keeps every other peak.
C18_MadDropsExactlyAboveThreshold ==
    LastCall = "mad_outlier"
       => IF Len(peaks_in) < cfg.xy_outlier_min_peaks
          THEN peaks = peaks_in
          ELSE peaks = SelectSeq(peaks_in,
                          LAMBDA p : ~Exceeds(smoothed[p], ValuesAtInput,
                                              cfg.xy_outlier_mad_thresh,
                                              cfg.xy_outlier_mad_floor))

\* C18 amended: as stated when max(MAD, mad_floor) > 0; when it is 0 (a zero
\* floor and more than half of the values equal) mad_outlier returns its input
\* unchanged, whatever lies above the median.
C18_MadDropsAboveThresholdUnlessZeroMad ==
    LastCall = "mad_outlier"
       => IF \/ Len(peaks_in) < cfg.xy_outlier_min_peaks
             \/ Max2(FourTimesMAD(ValuesAtInput), 4 * cfg.xy_outlier_mad_floor) <= 0
          THEN peaks = peaks_in
          ELSE peaks = SelectSeq(peaks_in,
                          LAMBDA p : ~Exceeds(smoothed[p], ValuesAtInput,
                                              cfg.xy_outlier_mad_thresh,
                                              cfg.xy_outlier_mad_floor))

\* mad_outlier dropped one of three peaks under a positive floor
C18_Witness ==
    /\ LastCall = "mad_outlier"
    /\ cfg.xy_outlier_mad_floor > 0
    /\ Len(peaks_in) = 3
    /\ Len(peaks) = 2
    /\ log = <<Entry("MAD", 1)>>

\* twice the wrist-to-shoulder x offsets at the peaks followthrough was given
TwiceOffsetsAtInput == [i \in 1..Len(peaks_in) |-> Offset2(pkl_data.kp[peaks_in[i]])]

\* C19: followthrough returns its input unchanged when there is no keypoint
\* source or fewer than xy_outlier_min_peaks peaks; otherwise it drops exactly the
\* peaks whose wrist-midpoint minus shoulder-midpoint x offset exceeds
\* median + xoff_mad_thresh x max(MAD, xoff_mad_floor), over the offsets of the
\* peaks it was given (offsets and floor both doubled to stay in the integers).
C19_FollowThroughDropsExactlyAboveThreshold ==
    LastCall = "followthrough"
       => IF ~pkl_data.loaded \/ Len(peaks_in) < cfg.xy_outlier_min_peaks
          THEN peaks = peaks_in
          ELSE peaks = SelectSeq(peaks_in,
                          LAMBDA p : ~Exceeds(Offset2(pkl_data.kp[p]), TwiceOffsetsAtInput,
                                              cfg.xoff_mad_thresh, 2 * cfg.xoff_mad_floor))

\* followthrough dropped one of three peaks
C19_Witness ==
    /\ LastCall = "followthrough"
    /\ pkl_data.loaded
    /\ Len(peaks_in) = 3
    /\ Len(peaks) = 2
    /\ log = <<Entry("Follow-through", 1)>>

\* the frame-to-frame differences of the fine signal over [lo, cand)
DiffsBehind(lo) == [i \in 1..(cand - 1 - lo) |-> smoothed[lo + i] - smoothed[lo + i - 1]]

RECURSIVE SumOf(_)
SumOf(s) == IF s = <<>> THEN 0 ELSE Head(s) + SumOf(Tail(s))

\* m * m times the variance of a sequence d of m numbers
ScaledVariance(d) ==
    Len(d) * SumOf([i \in 1..Len(d) |-> d[i] * d[i]]) - SumOf(d) * SumOf(d)

\* the score is  sqrt(score.V) / score.m - 0.5 * score.D ;  its jitter term is
\* the standard deviation of the differences d
JitterIsStdOf(d) == score.V * Len(d) * Len(d) = ScaledVariance(d) * score.m * score.m

\* C20 (jitter): approach_jitter is the standard deviation of the frame-to-frame
\* differences over [peak - look_behind, peak), the window starting no earlier
\* than frame 0 (zero when it holds fewer than two differences).
C20_JitterIsStdOfDifferencesBehind ==
    pc = "scored"
       => LET d == DiffsBehind(Max2(0, cand - cfg.look_behind))
          IN IF Len(d) >= 1 THEN JitterIsStdOf(d) ELSE score.V = 0

\* C20 as stated: for a peak with at least look_ahead frames after it the
\* departure term is the fine signal at peak + look_ahead minus the fine signal
\* at peak, and approach_jitter is the standard deviation of the differences
\* over [peak - look_behind, peak).
C20_DepartureReadsFrameAtLookAhead ==
    pc = "scored"
       => /\ C20_JitterIsStdOfDifferencesBehind
          /\ cand + cfg.look_ahead <= n_pkl - 1
                => score.D = smoothed[cand + cfg.look_ahead] - smoothed[cand]

\* what backswing_score computes: the departure term reads the frame before
\* peak + look_ahead, the last one of smoothed[peak : peak + look_ahead]
C20_DepartureReadsFrameBeforeLookAhead ==
    pc = "scored" /\ cand + cfg.look_ahead <= n_pkl
       => score.D = smoothed[cand + cfg.look_ahead - 1] - smoothed[cand]

\* ms = int(total_video_frames * 0.95), the first suppressed frame
MaskStart == (total_frames * 95) \div 100

\* C21: when int(0.95 x total_video_frames) is below the signal length, every
\* anchor find_anchors returns lies before it.
C21_NoAnchorInSuppressedTail ==
    (Len(calls) >= 1 /\ MaskStart < n_pkl)
       => \A i \in 1..Len(anchors) : anchors[i] < MaskStart

\* find_anchors returned an anchor while an interior frame of the suppressed tail
\* is a strict local minimum of the fine signal (a peak of its negation)
C21_Witness ==
    /\ LastCall = "find_anchors"
    /\ Len(anchors) >= 1
    /\ MaskStart < n_pkl - 1
    /\ smoothed[MaskStart] < smoothed[MaskStart - 1]
    /\ smoothed[MaskStart] < smoothed[MaskStart + 1]

\* the coarse signal's discrete derivative goes from non-positive to positive at k
TurnsUpAt(k) == coarse[k] - coarse[k - 1] <= 0 /\ coarse[k + 1] - coarse[k] > 0

ScoreOf(c) == backswing_score(c, smoothed, n_pkl, cfg)

\* C22: the candidate list of an anchor holds exactly the frames in
\* (max(0, anchor - search_back), anchor) where the coarse derivative turns from
\* non-positive to positive, in ascending order, and the anchor last; the chosen
\* candidate has the minimum backswing_score, the earliest one on ties.
C22_CandidatesAndMinimumScore ==
    /\ pc = "choose_best"
          => /\ Range(candidates) =
                   {k \in (Max2(0, Anchor - cfg.search_back) + 1)..(Anchor - 1) : TurnsUpAt(k)}
                   \cup {Anchor}
             /\ StrictlyIncreasing(candidates)
             /\ Last(candidates) = Anchor
    /\ pc = "refine"
          => \E i \in 1..Len(candidates) :
                /\ best = candidates[i]
                /\ \A j \in 1..Len(candidates) : ~ScoreLess(ScoreOf(candidates[j]), ScoreOf(best))
                /\ \A j \in 1..(i - 1) : ScoreLess(ScoreOf(best), ScoreOf(candidates[j]))

\* a candidate before the anchor was chosen although the anchor scores the same,
\* and another candidate scores worse
C22_Witness ==
    /\ pc = "refine"
    /\ Len(candidates) >= 3
    /\ best # Anchor
    /\ ~ScoreLess(ScoreOf(best), ScoreOf(Anchor))
    /\ \E j \in 1..Len(candidates) : ScoreLess(ScoreOf(best), ScoreOf(candidates[j]))

\* the anchor, and the frame refined from it, of the iteration that just ended
DoneAnchor == anchors[Len(peaks)]
Refined == peaks[Len(peaks)]
RefineEnd == Min2(best + cfg.refine_window, n_pkl - 1)

\* C23: search_and_refine emits exactly one frame per anchor; the frame r is the
\* (first) index of the minimum of the fine signal over
\* [best, min(best + refine_window, N - 1)]; hence
\* max(0, anchor - search_back) <= best <= r <= min(anchor + refine_window, N - 1)
\* and fine[r] <= fine[best].
C23_OneRefinedFramePerAnchor ==
    /\ pc = "refined" => Len(peaks) = Len(anchors)
    /\ pc = "refined" => peaks = search_and_refine(anchors, smoothed, coarse, n_pkl, cfg)
    /\ (pc = "search_and_refine" /\ Len(peaks) >= 1)
          => /\ Refined \in best..RefineEnd
             /\ \A j \in best..RefineEnd : smoothed[Refined] <= smoothed[j]
             /\ \A j \in best..(Refined - 1) : smoothed[j] > smoothed[Refined]
             /\ Max2(0, DoneAnchor - cfg.search_back) <= best
             /\ best <= Refined
             /\ Refined <= Min2(DoneAnchor + cfg.refine_window, n_pkl - 1)
             /\ smoothed[Refined] <= smoothed[best]

\* two anchors were refined, the second one to the last frame of its window,
\* strictly below the chosen candidate
C23_Witness ==
    /\ pc = "refined"
    /\ Len(peaks) = 2
    /\ cfg.refine_window = 2
    /\ Refined = best + 2
    /\ smoothed[Refined] < smoothed[best]

\* the nearest good frames before and after frame i, if there are any
GoodBefore(i) == {g \in GoodFrames : g < i /\ \A h \in GoodFrames : h < i => h <= g}
GoodAfter(i) == {g \in GoodFrames : g > i /\ \A h \in GoodFrames : h > i => g <= h}

\* v lies at frame i on the straight line through (a, signal[a]) and (b, signal[b])
OnChord(v, i, a, b) == (v - signal[a]) * (b - a) = (signal[b] - signal[a]) * (i - a)

\* C24 as stated: with at least 2 good frames, interp_low_conf leaves every good
\* frame at its value and replaces every low-confidence frame by the linear
\* interpolation between the nearest good frame before it and the nearest good
\* frame after it; the output has the input's length.
C24_EveryBadFrameBetweenNeighbours ==
    (pc \in {"interp_again", "interp_done"} /\ Cardinality(GoodFrames) >= 2)
       => /\ DOMAIN interp_out = DOMAIN signal
          /\ \A i \in GoodFrames : interp_out[i] = signal[i]
          /\ \A i \in DOMAIN signal \ GoodFrames :
                \E a \in GoodBefore(i), b \in GoodAfter(i) : OnChord(interp_out[i], i, a, b)

\* C24 amended: as stated for a low-confidence frame that has a good frame on
\* both sides; a low-confidence frame before the first good frame takes the
\* first good frame's value, one after the last good frame the last one's.
C24_BadFramesInterpolatedOrHeldAtEnds ==
    (pc \in {"interp_again", "interp_done"} /\ Cardinality(GoodFrames) >= 2)
       => /\ DOMAIN interp_out = DOMAIN signal
          /\ \A i \in GoodFrames : interp_out[i] = signal[i]
          /\ \A i \in DOMAIN signal \ GoodFrames :
                IF GoodBefore(i) = {} THEN \A b \in GoodAfter(i) : interp_out[i] = signal[b]
                ELSE IF GoodAfter(i) = {} THEN \A a \in GoodBefore(i) : interp_out[i] = signal[a]
                ELSE \E a \in GoodBefore(i), b \in GoodAfter(i) :
                        OnChord(interp_out[i], i, a, b)

\* a low-confidence frame between two good frames of different values was
\* replaced, and a low-confidence last frame took the last good frame's value
\* where the line through the last two good frames would have given another
C24_Witness ==
    /\ pc = "interp_again"
    /\ Cardinality(GoodFrames) = 2
    /\ \E i \in DOMAIN signal \ GoodFrames :
          /\ GoodBefore(i) # {} /\ GoodAfter(i) # {}
          /\ interp_out[i] # signal[i]
          /\ \A a \in GoodBefore(i), b \in GoodAfter(i) : signal[a] # signal[b]
    /\ \E i \in DOMAIN signal \ GoodFrames :
          /\ GoodAfter(i) = {}
          /\ interp_out[i] # signal[i]

\* C25: for any anchor or peak in [0, N) and any non-negative window sizes,
\* every slice that backswing_score, the backward candidate search, the forward
\* refinement and the contact search take has its bounds inside the signal
\* (0 <= start, end <= N, so only frames in [0, N) are read); a slice whose
\* element, minimum or maximum is taken is not empty, and the candidate list
\* whose minimum score is taken is not empty.
C25_WindowsClampedAndNonEmpty ==
    /\ \A i \in 1..Len(slices) :
          /\ 0 <= slices[i].lo
          /\ slices[i].hi <= n_pkl
          /\ slices[i].needs_sample => slices[i].lo < slices[i].hi
    /\ pc = "choose_best" => candidates # <<>>

\* backswing_score ran on a frame with fewer than look_behind frames before it
\* and fewer than look_ahead frames after it, and took the ends of the frames
\* ahead
C25_Witness ==
    /\ pc = "scored"
    /\ cand - cfg.look_behind < 0
    /\ cand + cfg.look_ahead > n_pkl
    /\ slices[1].lo = 0
    /\ slices[2].hi = n_pkl
    /\ slices[2].needs_sample

\* the peaks merge_close was given and did not return
Discarded == Range(peaks_in) \ Range(peaks)

Near(p, q) == Abs(p - q) < cfg.min_swing_gap

\* C26 as stated: merge_close discards a peak only if it lies fewer than
\* min_swing_gap frames from some peak kept in the output.
C26_DiscardedNearAKeptPeak ==
    LastCall = "merge_close"
       => \A d \in Discarded : \E k \in Range(peaks) : Near(d, k)

\* C26 amended: merge_close discards a peak only if it lies fewer than
\* min_swing_gap frames from another input peak whose fine value is no higher;
\* the output holds a peak at least as deep as each discarded one, which may
\* lie min_swing_gap frames or more away.
C26_DiscardedNearADeeperInputPeak ==
    LastCall = "merge_close"
       => \A d \in Discarded :
             /\ \E q \in Range(peaks_in) \ {d} : Near(d, q) /\ smoothed[q] <= smoothed[d]
             /\ \E k \in Range(peaks) : smoothed[k] <= smoothed[d]

\* three peaks were merged into the last one, which lies min_swing_gap frames
\* or more from the first
C26_Witness ==
    /\ LastCall = "merge_close"
    /\ Len(peaks_in) = 3
    /\ peaks = <<peaks_in[3]>>
    /\ ~Near(peaks_in[1], peaks_in[3])

\* C27: whatever array run_all starts from (unsorted, with duplicates), every
\* step of run_all leaves a subset of the frames it found, so what run_all
\* returns is a subset of its input, and it returns a strictly increasing
\* (hence duplicate-free) array.
C27_RunAllReturnsIncreasingSubset ==
    [][ /\ Range(peaks') \subseteq Range(peaks)
        /\ pc' = "returned" => StrictlyIncreasing(peaks') ]_vars

\* run_all was given a longer array with duplicates, ran all five filters and
\* returned two frames
C27_Witness ==
    /\ pc = "returned"
    /\ FilterCalls = FilterOrder
    /\ Len(peaks) = 2
    /\ log # <<>>
    /\ log[1].filter = "Dedup"

\* C28: once the peak set is non-empty after trim_end, merge_close keeps at
\* least one peak, mad_outlier and followthrough (multipliers and floors not
\* negative) each keep every peak whose value is at or below the median, and
\* run_all's result is not empty.
C28_NonEmptyAfterTrimStaysNonEmpty ==
    /\ pc \in {"merge_close", "mad_outlier", "followthrough", "return", "returned"}
          => peaks # <<>>
    /\ LastCall = "mad_outlier"
          => \A i \in 1..Len(peaks_in) :
                2 * smoothed[peaks_in[i]] <= TwiceMedian(ValuesAtInput)
                   => peaks_in[i] \in Range(peaks)
    /\ LastCall = "followthrough"
          => IF ~pkl_data.loaded \/ Len(peaks_in) < cfg.xy_outlier_min_peaks
             THEN peaks = peaks_in
             ELSE \A i \in 1..Len(peaks_in) :
                     2 * Offset2(pkl_data.kp[peaks_in[i]]) <= TwiceMedian(TwiceOffsetsAtInput)
                        => peaks_in[i] \in Range(peaks)

\* run_all returned a single peak after mad_outlier and followthrough each
\* removed one
C28_Witness ==
    /\ pc = "returned"
    /\ Len(peaks) = 1
    /\ Len(log) = 2
    /\ log[1].filter = "MAD"
    /\ log[2].filter = "Follow-through"

RECURSIVE SumRemoved(_)
\* the sum of the counts the log's entries report
SumRemoved(l) == IF l = <<>> THEN 0 ELSE Head(l).removed + SumRemoved(Tail(l))

\* the name under which the filter that runs next reports
ReportsAs ==
    CASE pc = "run_all" -> "Dedup"
      [] pc = "trim_end" -> "End-of-video"
      [] pc = "merge_close" -> "Too-close"
      [] pc = "mad_outlier" -> "MAD"
      [] pc = "followthrough" -> "Follow-through"
      [] OTHER -> "none"

\* C29: a filter that removes k > 0 peaks appends exactly one entry, its own,
\* reporting k; a filter that removes none appends nothing; so the entries are
\* in filter order and the reported counts sum to len(input) - len(output).
C29_LogAccountsForEveryRemovedPeak ==
    [][ /\ log' = IF Len(peaks') < Len(peaks)
                   THEN Append(log, Entry(ReportsAs, Len(peaks) - Len(peaks')))
                   ELSE log
        /\ Len(peaks') + SumRemoved(log') = Len(peaks) + SumRemoved(log) ]_vars

\* run_all returned one peak of three candidates, with an entry of dedup and
\* an entry of merge_close
C29_Witness ==
    /\ pc = "returned"
    /\ FilterCalls = FilterOrder
    /\ Len(peaks) = 1
    /\ Len(log) = 2
    /\ log[1].filter = "Dedup"
    /\ log[2].filter = "Too-close"
    /\ SumRemoved(log) = 2

\* min_swing_gap > contact_search_max - contact_search_min, contact_search_min > 0
GapExceedsWindow ==
    /\ cfg.min_swing_gap > cfg.contact_search_max - cfg.contact_search_min
    /\ cfg.contact_search_min > 0

\* C30: when detect_contacts runs on detect_backswings' result with the same
\* config and min_swing_gap > contact_search_max - contact_search_min,
\* contact_search_min > 0: the nominated contacts are strictly increasing, the
\* backswings skipped are the last ones, dedup removes nothing, and the i-th
\* contact lies contact_search_min to contact_search_max frames after the i-th
\* backswing.
C30_ContactsPairWithBackswingsInOrder ==
    GapExceedsWindow
       => /\ pc \in {"contact_dedup", "done"}
                => /\ StrictlyIncreasing(contacts)
                   /\ Len(contacts) <= Len(result.peak_frames)
                   /\ \A i \in 1..Len(result.peak_frames) :
                         i <= Len(contacts) <=> WindowStart(result.peak_frames[i]) < n_pkl
                   /\ \A i \in 1..Len(contacts) :
                         /\ contacts[i] - result.peak_frames[i] >= cfg.contact_search_min
                         /\ contacts[i] - result.peak_frames[i] <= cfg.contact_search_max
          /\ pc = "done"
                => /\ cresult.contact_frames = contacts
                   /\ cresult.filter_log = <<>>

\* detect_backswings accepted two backswings, the gap exceeding the window
\* length, and detect_contacts returned a contact for each
C30_Witness ==
    /\ pc = "done"
    /\ GapExceedsWindow
    /\ "search_and_refine" \in Range(calls)
    /\ Len(result.peak_frames) = 2
    /\ Len(cresult.contact_frames) = 2

====
